---- MODULE Spec2Model ----
(***************************************************************************)
(* A model of the chunking and retrieval code of wandb/rag:                *)
(*   - the similarity ("Kamradt") chunker of finance_multi_modal_rag,      *)
(*   - the markdown and the code chunker of rag-tutor,                     *)
(*   - the hybrid retrieve-and-rerank pipeline of rag-tutor.               *)
(* Each component is a state machine of its own (SearchSpec, KamradtSpec,  *)
(* ...); the variables of the other components stay idle meanwhile.        *)
(***************************************************************************)
EXTENDS Integers, Sequences, FiniteSets, TLC

VARIABLES
    \* ---- the threshold binary search of KamradtModifiedChunker.split_text
    spc,                  \* position in the search: "idle", "search", "cut", "done"
    distances,            \* cosine distances between consecutive units, in units of 1/Scale
    number_of_cuts,       \* total_tokens // avg_chunk_size
    lower_limit,
    upper_limit,
    threshold,            \* the last midpoint probed (NoThreshold before the first)
    iterations,           \* how often the body of the while loop has run
    indices_above_thresh  \* the cut positions (0-based gap indices)

    \* ---- KamradtModifiedChunker.split_text as a whole
VARIABLES
    kpc,                  \* "idle", "start" (constructed, text given), "done" (returned),
                          \* "raised" (ended with an exception)
    text,                 \* the input text, a string (see Strings below)
    tok,                  \* the length function on sentences: sentence id -> token count
    min_chunk_size,
    avg_chunk_size,
    sentences_strips,     \* the units split_into_chunks packed
    chunks,               \* the list split_text returns
    splitter_length_function,  \* the length_function that self.splitter is bound to
    self_length_function  \* self.length_function

    \* ---- the markdown chunker: chunk_doc of md_chunker.py
VARIABLES
    mpc,                  \* "idle", "start", "done"
    atoms,                \* the HTML of the document: its atoms (tags and texts), in order
    blocks,               \* the top-level nodes of the parsed HTML, in order
    max_length,
    parent_chunks,        \* the parent sections after their merge
    md_chunks,            \* per parent section, its markdown fragments after their merge
    child_chunks          \* the chunks chunk_doc returns

    \* ---- the code chunker: chunk_code of code_chunker.py
VARIABLES
    cpc,                  \* "idle", "start", "chunked", "rechunked"
    root_node,            \* the root node of the parsed module
    hash_seed,            \* the string hash seed of the running interpreter
    restarted,            \* whether the interpreter was restarted after the first run
    root_chunks,          \* what process_root returned in the first run
    chunks_strs,          \* the chunk texts of the first run
    rechunked_strs        \* the chunk texts of the second run

    \* ---- HybridRetriever.retrieve_and_rerank of docstore.py
VARIABLES
    rpc,                  \* "idle", "start", "retrieved", "reranking", "done", "failed"
    dense_hits,           \* the rows the vector search finds for the query, best first
    lexical_hits,         \* the rows the full-text search finds for the query, best first
    k,
    documents,            \* what retrieve returned
    deduped_docs,         \* the candidates handed to rerank
    reranked_docs,        \* what retrieve_and_rerank returns
    service_response,     \* how the call of the rerank service ended, and its results
    call_log              \* the steps of retrieve_and_rerank so far, with their arguments

\* FinanceQABot.fetch_most_relevant_image (response_generation.py).
VARIABLES
    ipc,                  \* fetch_most_relevant_image is "idle", at "scan" or "done"
    dataset,              \* the number of images of each document
    retrieved_chunks,     \* the document_idx of each retrieved chunk
    scanned,              \* how many chunks the loop has gone through
    consulted,            \* the chunks handed to the image retriever
    most_relevant_image   \* what fetch_most_relevant_image returns

\* chat (generation.py), the retrieval of the sub-queries.
VARIABLES
    fpc,                  \* chat is "idle", at "gather", "done" or "failed"
    tasks,                \* the sub-query retrievals, where each is and what it returned
    context_docs          \* the documents chat goes on with

\* EdgarDataLoader.generate_image_description (data_loading.py).
VARIABLES
    gpc,                  \* generate_image_description is "idle", at "loop" or "done"
    images,               \* the images of a filing
    image_descriptions,   \* the descriptions collected so far
    caption_failed        \* the images whose caption call raised

\* chunk_doc (chunker/__init__.py).
VARIABLES
    dpc,                  \* chunk_doc is "idle", at "call" or "done"
    doc,                  \* the Document, its content and its source_type
    chunker_run,          \* the chunker chunk_doc called, if any
    doc_chunks            \* what chunk_doc returns

\* HybridRetriever.index and iter_data (docstore.py).
VARIABLES
    xpc,                  \* HybridRetriever.index is "idle", "ready", has "failed" or has "indexed"
    table,                \* the rows of the table "documents"
    fts_index,            \* the rows the full-text index was built over
    corpus,               \* the corpus of the most recent index call
    index_calls           \* how many index calls were made

searchVars == <<spc, distances, number_of_cuts, lower_limit, upper_limit,
                threshold, iterations, indices_above_thresh>>

kamradtVars == <<kpc, text, tok, min_chunk_size, avg_chunk_size,
                 sentences_strips, chunks, splitter_length_function,
                 self_length_function>>

mdVars == <<mpc, atoms, blocks, max_length, parent_chunks, md_chunks, child_chunks>>

codeVars == <<cpc, root_node, hash_seed, restarted, root_chunks, chunks_strs,
              rechunked_strs>>

retrieverVars == <<rpc, dense_hits, lexical_hits, k, documents, deduped_docs,
                   reranked_docs, service_response, call_log>>

imageVars == <<ipc, dataset, retrieved_chunks, scanned, consulted, most_relevant_image>>

fanoutVars == <<fpc, tasks, context_docs>>

captionVars == <<gpc, images, image_descriptions, caption_failed>>

dispatchVars == <<dpc, doc, chunker_run, doc_chunks>>

indexVars == <<xpc, table, fts_index, corpus, index_calls>>

vars == <<searchVars, kamradtVars, mdVars, codeVars, retrieverVars, imageVars,
    fanoutVars,
    captionVars,
    dispatchVars,
    indexVars>>

\* What each component leaves alone.
notSearchVars == <<kamradtVars, mdVars, codeVars, retrieverVars, imageVars,
    fanoutVars,
    captionVars,
    dispatchVars,
    indexVars>>
notKamradtVars == <<mdVars, codeVars, retrieverVars, imageVars, fanoutVars,
    captionVars,
    dispatchVars,
    indexVars>>
notMdVars == <<searchVars, kamradtVars, codeVars, retrieverVars, imageVars,
    fanoutVars,
    captionVars,
    dispatchVars,
    indexVars>>
notCodeVars == <<searchVars, kamradtVars, mdVars, retrieverVars, imageVars,
    fanoutVars,
    captionVars,
    dispatchVars,
    indexVars>>
notRetrieverVars == <<searchVars, kamradtVars, mdVars, codeVars, imageVars,
    fanoutVars,
    captionVars,
    dispatchVars,
    indexVars>>
notImageVars == <<searchVars, kamradtVars, mdVars, codeVars, retrieverVars,
    fanoutVars,
    captionVars,
    dispatchVars,
    indexVars>>
notFanoutVars == <<searchVars, kamradtVars, mdVars, codeVars, retrieverVars, imageVars,
    captionVars,
    dispatchVars,
    indexVars>>
notCaptionVars == <<searchVars, kamradtVars, mdVars, codeVars, retrieverVars, imageVars, fanoutVars,
    dispatchVars,
    indexVars>>
notDispatchVars == <<searchVars, kamradtVars, mdVars, codeVars, retrieverVars, imageVars, fanoutVars, captionVars,
    indexVars>>
notIndexVars == <<searchVars, kamradtVars, mdVars, codeVars, retrieverVars, imageVars, fanoutVars, captionVars, dispatchVars>>

(***************************************************************************)
(* Bounds of the model.                                                    *)
(***************************************************************************)
MaxGaps == 3
MaxCuts == 2
MaxSentences == 3
MaxLeaves == 2
MaxDefs == 2
MaxHits == 3
MaxChunks == 3
MaxImages == 2
MaxQueries == 3
MaxContent == 3
MaxCorpus == 3
MaxCalls == 2
BatchSize == 2

(***************************************************************************)
(* Sequences over S of length 0..n.                                        *)
(***************************************************************************)
SeqsUpTo(S, n) == UNION {[1..m -> S] : m \in 0..n}

(***************************************************************************)
(* Fixed-point numbers.  A distance or a threshold x is held as the        *)
(* integer x * Scale.  Scale = 10 * 2^20, so every tenth is an integer and *)
(* so is every midpoint of the first 20 halvings of [0, 1]: those are      *)
(* dyadic numbers of at most 20 bits, which binary64 holds exactly, so the *)
(* integers follow the floats of the code step for step.                   *)
(***************************************************************************)
Scale == 10 * 1048576

\* 1e-6 is 1 / ToleranceInv.
ToleranceInv == 1000000

\* The cosine distances the embedding stub may produce: tenths of [0, 1].
DistTenths == {0, 1, 3, 5, 9, 10}
DistValues == {t * (Scale \div 10) : t \in DistTenths}

NoThreshold == 0 - 1

(***************************************************************************)
(* The while loop of split_text (chunking.py 197-209).                     *)
(***************************************************************************)
\* np.sum(distances_np > threshold)
NumPointsAbove(dists, t) == Cardinality({i \in DOMAIN dists : dists[i] > t})

\* upper_limit - lower_limit > 1e-6; for an integer width w,
\* w / Scale > 1 / ToleranceInv  iff  w > Scale \div ToleranceInv.
\* (LoopGuardTight: the same guard with a tolerance of 1e-7.)
LoopGuardTight(lo, hi) == hi - lo > Scale \div (10 * ToleranceInv)
LoopGuard(lo, hi) == hi - lo > Scale \div ToleranceInv

\* (upper_limit + lower_limit) / 2.0
Midpoint(lo, hi) == (hi + lo) \div 2

\* [i for i, x in enumerate(distances) if x > threshold], 0-based, ascending.
RECURSIVE IndicesAboveFrom(_, _, _)
IndicesAboveFrom(dists, t, i) ==
    IF i > Len(dists) THEN <<>>
    ELSE (IF dists[i] > t THEN <<i - 1>> ELSE <<>>) \o IndicesAboveFrom(dists, t, i + 1)

\* (IndicesAtOrAboveThresh: the gaps at the threshold taken too.)
IndicesAtOrAboveThresh(dists, t) ==
    SelectSeq([i \in DOMAIN dists |-> i - 1], LAMBDA i : dists[i + 1] >= t)

IndicesAboveThresh(dists, t) == IndicesAboveFrom(dists, t, 1)

(***************************************************************************)
(* SearchSpec: the binary search on its own, for every distance list and   *)
(* every desired cut count.                                                *)
(***************************************************************************)
ImageIdle ==
    /\ ipc = "idle"
    /\ dataset = <<>>
    /\ retrieved_chunks = <<>>
    /\ scanned = 0
    /\ consulted = <<>>
    /\ most_relevant_image = [document_idx |-> 0, image_idx |-> -1]

FanoutIdle ==
    /\ fpc = "idle"
    /\ tasks = <<>>
    /\ context_docs = <<>>

CaptionIdle ==
    /\ gpc = "idle"
    /\ images = <<>>
    /\ image_descriptions = <<>>
    /\ caption_failed = {}

DispatchIdle ==
    /\ dpc = "idle"
    /\ doc = [content |-> <<>>, source_type |-> ""]
    /\ chunker_run = "none"
    /\ doc_chunks = <<>>

IndexIdle ==
    /\ xpc = "idle"
    /\ table = <<>>
    /\ fts_index = <<>>
    /\ corpus = <<>>
    /\ index_calls = 0

CodeIdle ==
    /\ cpc = "idle"
    /\ root_node = <<>>
    /\ hash_seed = 0
    /\ restarted = FALSE
    /\ root_chunks = <<>>
    /\ chunks_strs = <<>>
    /\ rechunked_strs = <<>>

RetrieverIdle ==
    /\ rpc = "idle"
    /\ dense_hits = <<>>
    /\ lexical_hits = <<>>
    /\ k = 0
    /\ documents = <<>>
    /\ deduped_docs = <<>>
    /\ reranked_docs = <<>>
    /\ service_response = [status |-> "none", results |-> <<>>]
    /\ call_log = <<>>

MdIdle ==
    /\ mpc = "idle"
    /\ atoms = <<>>
    /\ blocks = <<>>
    /\ max_length = 0
    /\ parent_chunks = <<>>
    /\ md_chunks = <<>>
    /\ child_chunks = <<>>

KamradtIdle ==
    /\ kpc = "idle"
    /\ text = <<>>
    /\ tok = <<>>
    /\ min_chunk_size = 0
    /\ avg_chunk_size = 0
    /\ sentences_strips = <<>>
    /\ chunks = <<>>
    /\ splitter_length_function = "None"
    /\ self_length_function = "None"

SearchInit ==
    /\ KamradtIdle
    /\ MdIdle
    /\ CodeIdle
    /\ RetrieverIdle
    /\ ImageIdle
    /\ FanoutIdle
    /\ CaptionIdle
    /\ DispatchIdle
    /\ IndexIdle
    /\ spc = "search"
    /\ distances \in SeqsUpTo(DistValues, MaxGaps)
    /\ number_of_cuts \in 0..MaxCuts
    /\ lower_limit = 0
    /\ upper_limit = Scale
    /\ threshold = NoThreshold
    /\ iterations = 0
    /\ indices_above_thresh = <<>>

\* One run of the loop body (lines 203-209).
SearchIter ==
    /\ spc = "search"
    /\ LoopGuard(lower_limit, upper_limit)
    /\ threshold' = Midpoint(lower_limit, upper_limit)
    /\ IF NumPointsAbove(distances, threshold') > number_of_cuts
          THEN lower_limit' = threshold' /\ UNCHANGED upper_limit
          ELSE upper_limit' = threshold' /\ UNCHANGED lower_limit
    /\ iterations' = iterations + 1
    /\ UNCHANGED <<spc, distances, number_of_cuts, indices_above_thresh>>
    /\ UNCHANGED notSearchVars

\* The loop condition fails (line 202).
SearchExit ==
    /\ spc = "search"
    /\ ~LoopGuard(lower_limit, upper_limit)
    /\ spc' = "cut"
    /\ UNCHANGED <<distances, number_of_cuts, lower_limit, upper_limit,
                   threshold, iterations, indices_above_thresh>>
    /\ UNCHANGED notSearchVars

\* Line 211: the cuts are taken at the last threshold probed.
SearchCut ==
    /\ spc = "cut"
    /\ indices_above_thresh' = IndicesAboveThresh(distances, threshold)
    /\ spc' = "done"
    /\ UNCHANGED <<distances, number_of_cuts, lower_limit, upper_limit,
                   threshold, iterations>>
    /\ UNCHANGED notSearchVars

SearchNext == SearchIter \/ SearchExit \/ SearchCut

\* The loop is synchronous code: it keeps running until its condition fails.
SearchSpec == SearchInit /\ [][SearchNext]_vars /\ WF_vars(SearchNext)

(***************************************************************************)
(* C1: the number of cuts made (gaps whose distance is strictly greater    *)
(* than the threshold the search leaves) is at most the desired cut count. *)
(***************************************************************************)
C1_CutsAtMostDesired ==
    spc = "done" => Len(indices_above_thresh) <= number_of_cuts

(***************************************************************************)
(* C5: the search terminates, after at most 21 runs of the loop body.      *)
(***************************************************************************)
C5_SearchTerminates ==
    /\ [](iterations <= 21)
    /\ <>(spc = "done")

C5_Witness == spc = "done" /\ iterations = 20 /\ Len(distances) = MaxGaps

(***************************************************************************)
(* Strings.  A string is a sequence of pieces: a sentence (its id, 1, 2,   *)
(* ...) or a separator.  The input text is its sentences joined by single  *)
(* spaces, with or without whitespace before and after.                    *)
(***************************************************************************)
NL == 0 - 1    \* "\n"
SP == 0 - 2    \* " "
WS == 0 - 3    \* leading or trailing whitespace of the input text

IsSentence(piece) == piece > 0

\* sep.join(strs)
RECURSIVE Join(_, _)
Join(strs, sep) ==
    IF Len(strs) = 0 THEN <<>>
    ELSE IF Len(strs) = 1 THEN strs[1]
    ELSE strs[1] \o <<sep>> \o Join(Tail(strs), sep)

\* The concatenation of a list of strings.
RECURSIVE Concat(_)
Concat(strs) == IF strs = <<>> THEN <<>> ELSE Head(strs) \o Concat(Tail(strs))

\* The sentences of a string, in order.
SentencesOf(str) == SelectSeq(str, IsSentence)

\* The text of n sentences.
MakeText(n, lead, trail) ==
    (IF lead THEN <<WS>> ELSE <<>>)
        \o Join([i \in 1..n |-> <<i>>], SP)
        \o (IF trail THEN <<WS>> ELSE <<>>)

\* str.strip(): without its leading and trailing whitespace.
RECURSIVE LStrip(_)
LStrip(str) == IF str # <<>> /\ ~IsSentence(Head(str)) THEN LStrip(Tail(str)) ELSE str

RECURSIVE RStrip(_)
RStrip(str) ==
    IF str # <<>> /\ ~IsSentence(str[Len(str)])
       THEN RStrip(SubSeq(str, 1, Len(str) - 1)) ELSE str

Strip(str) == RStrip(LStrip(str))

\* The length function: additive over the pieces, a separator counting 1
\* (exactly so for len, the default of the class; chunking.py 112-114).
PieceLength(piece) == IF IsSentence(piece) THEN tok[piece] ELSE 1

RECURSIVE length_function(_)
length_function(str) ==
    IF str = <<>> THEN 0 ELSE PieceLength(Head(str)) + length_function(Tail(str))

\* text_to_sentences(text).split("\n"): the sentences, whitespace dropped;
\* "".split("\n") is [""], one empty sentence.
sentence_splitter(str) ==
    LET ids == SentencesOf(str)
    IN IF ids = <<>> THEN << <<>> >> ELSE [i \in 1..Len(ids) |-> <<ids[i]>>]

(***************************************************************************)
(* split_into_chunks (chunking.py 37-74).                                  *)
(***************************************************************************)
\* (PackTokensNone: every sentence counting as nothing.)
PackTokensNone(sentence) == 0

\* Line 53: the token count the packing uses for a sentence.
PackTokens(sentence) == length_function(<<NL>> \o sentence)

\* Lines 59-72, from sentence i on.
RECURSIVE PackFrom(_, _, _, _, _, _)
PackFrom(sentences, max_tokens, i, acc, chunk, tokens_so_far) ==
    IF i > Len(sentences)
    THEN IF chunk # <<>> THEN Append(acc, Join(chunk, NL)) ELSE acc
    ELSE LET token == PackTokens(sentences[i])
             flush == tokens_so_far + token > max_tokens
             acc1 == IF flush THEN Append(acc, Join(chunk, NL)) ELSE acc
             chunk1 == IF flush THEN <<>> ELSE chunk
             so_far1 == IF flush THEN 0 ELSE tokens_so_far
         IN IF token > max_tokens
            THEN PackFrom(sentences, max_tokens, i + 1, acc1, chunk1, so_far1)
            ELSE PackFrom(sentences, max_tokens, i + 1, acc1,
                          Append(chunk1, sentences[i]), so_far1 + token + 1)

split_into_chunks(str, max_tokens) ==
    PackFrom(sentence_splitter(str), max_tokens, 1, <<>>, <<>>, 0)

(***************************************************************************)
(* split_text (chunking.py 168-230).                                       *)
(***************************************************************************)
\* Lines 197-209 run to the end: the limits, the last threshold probed and
\* the number of runs of the loop body.
RECURSIVE SearchLoop(_, _, _, _, _, _)
SearchLoop(dists, cuts, lo, hi, t, n) ==
    IF LoopGuard(lo, hi)
    THEN LET mid == Midpoint(lo, hi)
         IN IF NumPointsAbove(dists, mid) > cuts
            THEN SearchLoop(dists, cuts, mid, hi, mid, n + 1)
            ELSE SearchLoop(dists, cuts, lo, mid, mid, n + 1)
    ELSE [lower_limit |-> lo, upper_limit |-> hi, threshold |-> t, iterations |-> n]

\* Lines 191-195.
TotalTokens(units) == length_function(Concat(units))
NumberOfCuts(units, avg) == TotalTokens(units) \div avg

\* Lines 213-228: the units between consecutive cuts, joined by spaces.
RECURSIVE GroupFrom(_, _, _, _)
GroupFrom(units, indices, c, start_index) ==
    IF c > Len(indices)
    THEN IF start_index < Len(units)
         THEN << Join(SubSeq(units, start_index + 1, Len(units)), SP) >>
         ELSE <<>>
    ELSE << Join(SubSeq(units, start_index + 1, indices[c] + 1), SP) >>
             \o GroupFrom(units, indices, c + 1, indices[c] + 1)

GroupChunks(units, indices) == GroupFrom(units, indices, 1, 0)

\* Lines 179-181: what split_text returns for at most one unit.
\* (SingleChunkUnits: returning the packed units instead.)
SingleChunkUnits(str, units) == units
SingleChunk(str, units) == <<str>>

(***************************************************************************)
(* KamradtSpec: split_text on every text of up to MaxSentences sentences,  *)
(* under every configuration and every embedding stub.                     *)
(***************************************************************************)
\* The distances the stub produces here: 0.1, 0.5, 0.9 and 1.0, and
\* 1 - 2^-20, a distance the search can end on exactly.
StubDistValues == {t * (Scale \div 10) : t \in {1, 5, 9, 10}} \cup {Scale - 10}

TokValues == {1, 3, 5, 6}

\* __init__ (lines 85-114) with the length_function given or left at its
\* default None: the splitter is bound to the argument as it is (lines
\* 101-105); self.length_function is the argument, or len in place of None
\* (lines 112-114).
LengthFunctionArgs == {"None", "length_function"}

KamradtModifiedChunker(length_function_arg) ==
    [splitter_length_function |-> length_function_arg,
     length_function |-> IF length_function_arg = "None" THEN "len"
                         ELSE length_function_arg]

MinChunkSizes == {5}
AvgChunkSizes == {4, 8}

SearchIdle ==
    /\ spc = "idle"
    /\ distances = <<>>
    /\ number_of_cuts = 0
    /\ lower_limit = 0
    /\ upper_limit = Scale
    /\ threshold = NoThreshold
    /\ iterations = 0
    /\ indices_above_thresh = <<>>

KamradtInit ==
    /\ SearchIdle
    /\ MdIdle
    /\ CodeIdle
    /\ RetrieverIdle
    /\ ImageIdle
    /\ FanoutIdle
    /\ CaptionIdle
    /\ DispatchIdle
    /\ IndexIdle
    /\ kpc = "start"
    /\ \E n \in 0..MaxSentences, lead \in BOOLEAN, trail \in BOOLEAN :
          /\ text = MakeText(n, lead, trail)
          /\ tok \in [1..n -> TokValues]
    /\ min_chunk_size \in MinChunkSizes
    /\ avg_chunk_size \in AvgChunkSizes
    /\ sentences_strips = <<>>
    /\ chunks = <<>>
    /\ \E length_function_arg \in LengthFunctionArgs :
          /\ splitter_length_function
                 = KamradtModifiedChunker(length_function_arg).splitter_length_function
          /\ self_length_function
                 = KamradtModifiedChunker(length_function_arg).length_function

\* split_text(text); the embedding stub decides the distances (lines 187-189).
\* The splitter calls its length_function on the first sentence (line 53;
\* there is always one): calling None raises TypeError.
SplitText ==
    /\ kpc = "start"
    /\ IF splitter_length_function = "None"
       THEN /\ kpc' = "raised"
            /\ UNCHANGED <<sentences_strips, chunks>>
            /\ UNCHANGED searchVars
       ELSE /\ kpc' = "done"
            /\ sentences_strips' = split_into_chunks(text, min_chunk_size)
            /\ IF Len(sentences_strips') <= 1
               THEN /\ chunks' = SingleChunk(text, sentences_strips')
                    /\ UNCHANGED searchVars
               ELSE /\ distances' \in [1..(Len(sentences_strips') - 1) -> StubDistValues]
                    /\ number_of_cuts' = NumberOfCuts(sentences_strips', avg_chunk_size)
                    /\ LET r == SearchLoop(distances', number_of_cuts', 0, Scale,
                                           NoThreshold, 0)
                       IN /\ lower_limit' = r.lower_limit
                          /\ upper_limit' = r.upper_limit
                          /\ threshold' = r.threshold
                          /\ iterations' = r.iterations
                    /\ indices_above_thresh' = IndicesAboveThresh(distances', threshold')
                    /\ chunks' = GroupChunks(sentences_strips', indices_above_thresh')
                    /\ spc' = "done"
    /\ UNCHANGED <<text, tok, min_chunk_size, avg_chunk_size, splitter_length_function,
                   self_length_function>>
    /\ UNCHANGED notKamradtVars

KamradtNext == SplitText

KamradtSpec == KamradtInit /\ [][KamradtNext]_vars

\* The sentences of the returned chunks, read in order.
ChunkSentences == SentencesOf(Concat(chunks))

StrictlyIncreasing(ids) ==
    \A i \in 1..(Len(ids) - 1) : ids[i] < ids[i + 1]

(***************************************************************************)
(* C2: three units with distances 0.1 and 0.9 and exactly one desired cut  *)
(* are returned as two chunks: units 1 and 2 joined, then unit 3.          *)
(***************************************************************************)
C2_Scenario ==
    /\ kpc = "done"
    /\ Len(sentences_strips) = 3
    /\ distances = <<Scale \div 10, 9 * (Scale \div 10)>>
    /\ number_of_cuts = 1

C2_CutsOnlyAtLargeGap ==
    C2_Scenario =>
        chunks = << Join(SubSeq(sentences_strips, 1, 2), SP), sentences_strips[3] >>

(***************************************************************************)
(* C3: the chunks, read in order, hold every sentence of the text exactly  *)
(* once and in the original order, except for sentences whose own token    *)
(* count exceeds min_chunk_size.                                           *)
(***************************************************************************)
OwnTokensFit(id) == tok[id] <= min_chunk_size

C3_SentencesPreserved ==
    kpc = "done" =>
        /\ StrictlyIncreasing(ChunkSentences)
        /\ SelectSeq(ChunkSentences, OwnTokensFit)
              = SelectSeq(SentencesOf(text), OwnTokensFit)

(***************************************************************************)
(* C4: for a text of at most one sentence split_text returns exactly one   *)
(* chunk.  As claimed, the chunk is the trimmed text; as amended, it is    *)
(* the text as given, its leading and trailing whitespace kept.            *)
(***************************************************************************)
AtMostOneSentence == Len(SentencesOf(text)) <= 1

C4_SingleChunkIsTrimmedText ==
    (kpc = "done" /\ AtMostOneSentence) => chunks = <<Strip(text)>>

C4_SingleChunkIsText ==
    (kpc = "done" /\ AtMostOneSentence) => chunks = <<text>>

C4_Witness ==
    /\ kpc = "done"
    /\ Len(SentencesOf(text)) = 1
    /\ Head(text) = WS
    /\ chunks = <<text>>

(***************************************************************************)
(* The markdown chunker (md_chunker.py).                                   *)
(*                                                                         *)
(* The HTML of a document is a sequence of atoms: the start tag and the    *)
(* end tag of an element and the texts between them.  An HTML or markdown  *)
(* string is a sequence of pieces: an atom (its position in the document,  *)
(* 1, 2, ...) or a separator (NL "\n", BLANK "\n\n").  A node of the parse *)
(* tree holds the string it spans, as a tree-sitter node does.             *)
(***************************************************************************)
BLANK == 0 - 4    \* "\n\n"

IsAtom(piece) == piece > 0

Range(seq) == {seq[i] : i \in DOMAIN seq}

\* The shape of a document, before its atoms are numbered: a text, or an
\* element (p, h2, pre, div) around its kids.
TextKinds == {[tokens |-> 1, chars |-> 2], [tokens |-> 5, chars |-> 20]}

TextShape(kind) ==
    [type |-> "text", tag |-> "", tokens |-> kind.tokens, chars |-> kind.chars, kids |-> <<>>]

ElemShape(tag, kids) ==
    [type |-> "element", tag |-> tag, tokens |-> 0, chars |-> 0, kids |-> kids]

TextShapes == {TextShape(kind) : kind \in TextKinds}

\* The sequences of members of family[w] (w the number of texts in a member),
\* n texts in all.
RECURSIVE SeqsOfWeight(_, _)
SeqsOfWeight(family, n) ==
    IF n = 0 THEN {<<>>}
    ELSE UNION {{<<b>> \o rest : b \in family[w], rest \in SeqsOfWeight(family, n - w)}
                   : w \in 1..n}

\* A code block around n lines; a paragraph or a header around one text.
PreBlocksOf(n) == {ElemShape("pre", ts) : ts \in [1..n -> TextShapes]}

Around(tags, n) ==
    IF n = 1 THEN {ElemShape(tag, <<t>>) : tag \in tags, t \in TextShapes} ELSE {}

\* The kids of a div: paragraphs and code blocks.
DivFamily == [w \in 1..MaxLeaves |-> PreBlocksOf(w) \cup Around({"p"}, w)]

\* The top-level elements: headers, paragraphs, code blocks and divs.
BlockFamily ==
    [w \in 1..MaxLeaves |->
        PreBlocksOf(w) \cup Around({"p", "h2"}, w)
            \cup {ElemShape("div", kids) : kids \in SeqsOfWeight(DivFamily, w)}]

DocumentShapes == UNION {SeqsOfWeight(BlockFamily, n) : n \in 0..MaxLeaves}

\* The number of atoms of a shape.
RECURSIVE ShapeSize(_)
RECURSIVE KidsSize(_)
ShapeSize(sh) == IF sh.type = "text" THEN 1 ELSE 2 + KidsSize(sh.kids)
KidsSize(kids) == IF kids = <<>> THEN 0 ELSE ShapeSize(Head(kids)) + KidsSize(Tail(kids))

\* The atoms of a shape.  A tag is one token; in markdown the tags of a pre
\* become the fences (3 characters), a header's text gets the "## " prefix
\* and the other tags leave nothing.
TagAtom(kind, tag) ==
    [kind |-> kind, tag |-> tag, tokens |-> 1,
     chars |-> IF tag = "pre" THEN 3 ELSE 0, in_pre |-> tag = "pre"]

RECURSIVE ShapeAtoms(_, _)
RECURSIVE KidsAtoms(_, _)
ShapeAtoms(sh, within) ==
    IF sh.type = "text"
    THEN << [kind |-> "text", tag |-> "", tokens |-> sh.tokens,
             chars |-> sh.chars + (IF within = "h2" THEN 3 ELSE 0),
             in_pre |-> within = "pre"] >>
    ELSE <<TagAtom("open", sh.tag)>>
             \o KidsAtoms(sh.kids, IF sh.tag \in {"pre", "h2"} THEN sh.tag ELSE within)
             \o <<TagAtom("close", sh.tag)>>
KidsAtoms(kids, within) ==
    IF kids = <<>> THEN <<>>
    ELSE ShapeAtoms(Head(kids), within) \o KidsAtoms(Tail(kids), within)

\* The parse tree of a shape whose first atom is at position start.
Span(start, size) == [i \in 1..size |-> start + i - 1]

TagNode(type, tag, at) ==
    [type |-> type, tag |-> tag, text |-> <<at>>, children |-> <<>>]

RECURSIVE ParseShape(_, _)
RECURSIVE ParseKids(_, _)
ParseShape(sh, start) ==
    IF sh.type = "text"
    THEN [type |-> "text", tag |-> "", text |-> <<start>>, children |-> <<>>]
    ELSE [type |-> "element", tag |-> "", text |-> Span(start, ShapeSize(sh)),
          children |-> <<TagNode("start_tag", sh.tag, start)>>
                           \o ParseKids(sh.kids, start + 1)
                           \o <<TagNode("end_tag", sh.tag, start + ShapeSize(sh) - 1)>>]
ParseKids(kids, start) ==
    IF kids = <<>> THEN <<>>
    ELSE <<ParseShape(Head(kids), start)>>
             \o ParseKids(Tail(kids), start + ShapeSize(Head(kids)))

\* length_fn: additive over the pieces, a separator counting one token.
PieceTokens(piece) == IF IsAtom(piece) THEN atoms[piece].tokens ELSE 1

RECURSIVE length_fn(_)
length_fn(str) == IF str = <<>> THEN 0 ELSE PieceTokens(Head(str)) + length_fn(Tail(str))

\* split_on_headers (lines 12-25), from top-level element i on; current is
\* the HTML of the section being collected.
IsHeader(node) == node.type = "element" /\ node.children[1].tag = "h2"

RECURSIVE SplitFrom(_, _, _)
SplitFrom(elements, i, current) ==
    IF i > Len(elements)
    THEN IF current # <<>> THEN <<current>> ELSE <<>>
    ELSE IF IsHeader(elements[i]) /\ current # <<>>
         THEN <<current>> \o SplitFrom(elements, i + 1, elements[i].text)
         ELSE SplitFrom(elements, i + 1, current \o elements[i].text)

split_on_headers(elements) == SplitFrom(elements, 1, <<>>)

\* is_pre_tag (lines 28-36).  (is_pre_tag_code: looking for a code element
\* instead.)
is_pre_tag_code(node) ==
    /\ node.type = "element"
    /\ node.children # <<>>
    /\ node.children[1].type = "start_tag"
    /\ node.children[1].tag = "code"
is_pre_tag(node) ==
    /\ node.type = "element"
    /\ node.children # <<>>
    /\ node.children[1].type = "start_tag"
    /\ node.children[1].tag = "pre"

\* chunk_node (lines 39-49).
RECURSIVE chunk_node(_, _)
RECURSIVE chunk_children(_, _)
chunk_node(node, maxlen) ==
    IF is_pre_tag(node) THEN <<node.text>>
    ELSE IF length_fn(node.text) <= maxlen THEN <<node.text>>
    ELSE chunk_children(node.children, maxlen)
chunk_children(children, maxlen) ==
    IF children = <<>> THEN <<>>
    ELSE chunk_node(Head(children), maxlen) \o chunk_children(Tail(children), maxlen)

\* chunk_html (lines 52-60): the parse of a section is a root over the
\* top-level elements it holds.
StartsIn(node, html) == node.text[1] \in Range(html)

ParseHtml(html) ==
    [type |-> "fragment", tag |-> "", text |-> html,
     children |-> SelectSeq(blocks, LAMBDA b : StartsIn(b, html))]

chunk_html(html, maxlen) == chunk_node(ParseHtml(html), maxlen)

\* merge_chunks_with_tolerance (lines 63-81), from chunk i on.
RECURSIVE MergeFrom(_, _, _, _, _)
MergeFrom(strs, i, current_chunk, maxlen, length_tolerance) ==
    IF i > Len(strs) THEN <<current_chunk>>
    ELSE IF length_fn(current_chunk \o strs[i]) <= maxlen + length_tolerance
         THEN MergeFrom(strs, i + 1, current_chunk \o <<BLANK>> \o strs[i],
                        maxlen, length_tolerance)
         ELSE <<current_chunk>> \o MergeFrom(strs, i + 1, strs[i], maxlen, length_tolerance)

merge_chunks_with_tolerance(strs, maxlen, length_tolerance) ==
    IF strs = <<>> THEN <<>> ELSE MergeFrom(strs, 2, strs[1], maxlen, length_tolerance)

\* html_to_md (markdownify): the texts and the fences, a newline between
\* the lines of one code block, a blank line between blocks.
Rendered(piece) ==
    IsAtom(piece) /\ (atoms[piece].kind = "text" \/ atoms[piece].tag = "pre")

Separator(x, y) ==
    IF atoms[x].in_pre /\ atoms[y].in_pre /\ atoms[x].kind # "close" THEN NL ELSE BLANK

RECURSIVE RenderAtoms(_)
RenderAtoms(ids) ==
    IF Len(ids) <= 1 THEN ids
    ELSE <<ids[1], Separator(ids[1], ids[2])>> \o RenderAtoms(Tail(ids))

html_to_md(html) == RenderAtoms(SelectSeq(html, Rendered))

\* cleanup_text (utils.py 236-241): three or more newlines become two, then
\* strip().
RECURSIVE Collapse(_)
Collapse(str) ==
    IF Len(str) <= 1 THEN str
    ELSE IF ~IsAtom(str[1]) /\ ~IsAtom(str[2])
         THEN Collapse(<<BLANK>> \o SubSeq(str, 3, Len(str)))
         ELSE <<str[1]>> \o Collapse(Tail(str))

cleanup_text(str) == Strip(Collapse(str))

\* len(s) and len(s.splitlines()) of a markdown string.
PieceChars(piece) ==
    IF IsAtom(piece) THEN atoms[piece].chars ELSE IF piece = BLANK THEN 2 ELSE 1

RECURSIVE Chars(_)
Chars(str) == IF str = <<>> THEN 0 ELSE PieceChars(Head(str)) + Chars(Tail(str))

Lines(str) ==
    IF str = <<>> THEN 0
    ELSE 1 + Cardinality({i \in DOMAIN str : str[i] = NL})
           + 2 * Cardinality({i \in DOMAIN str : str[i] = BLANK})

\* Line 111: the noise filter.
KeepChunk(cleaned_chunk) == Chars(cleaned_chunk) > 10 /\ Lines(cleaned_chunk) > 2

\* Lines 95-104: the fragments of one parent section.
MapHtmlToMd(strs) == [i \in DOMAIN strs |-> html_to_md(strs[i])]

SectionFragments(parent_chunk, maxlen) ==
    merge_chunks_with_tolerance(MapHtmlToMd(chunk_html(parent_chunk, maxlen)),
                                maxlen, maxlen \div 4)

\* Lines 105-119.
ChildrenOf(md_chunk, parent_chunk) ==
    LET cleaned == [i \in DOMAIN md_chunk |-> cleanup_text(md_chunk[i])]
        kept == SelectSeq(cleaned, KeepChunk)
    IN [i \in DOMAIN kept |->
           [embed_content |-> kept[i],
            content |-> cleanup_text(html_to_md(parent_chunk)),
            embed_tokens |-> length_fn(kept[i])]]

RECURSIVE ChildChunksFrom(_, _, _)
ChildChunksFrom(fragments, parents, i) ==
    IF i > Len(parents) THEN <<>>
    ELSE ChildrenOf(fragments[i], parents[i]) \o ChildChunksFrom(fragments, parents, i + 1)

(***************************************************************************)
(* MdSpec: chunk_doc on every document of up to MaxLeaves texts.           *)
(***************************************************************************)
MaxLengths == {4, 8}

MdInit ==
    /\ SearchIdle
    /\ KamradtIdle
    /\ CodeIdle
    /\ RetrieverIdle
    /\ ImageIdle
    /\ FanoutIdle
    /\ CaptionIdle
    /\ DispatchIdle
    /\ IndexIdle
    /\ mpc = "start"
    /\ \E shape \in DocumentShapes :
          /\ atoms = KidsAtoms(shape, "")
          /\ blocks = ParseKids(shape, 1)
    /\ max_length \in MaxLengths
    /\ parent_chunks = <<>>
    /\ md_chunks = <<>>
    /\ child_chunks = <<>>

\* chunk_doc(doc, length_fn, max_length) (lines 84-123).
ChunkDoc ==
    /\ mpc = "start"
    /\ mpc' = "done"
    /\ IF blocks = <<>>
       THEN /\ parent_chunks' = <<>>
            /\ md_chunks' = <<>>
            /\ child_chunks' = <<>>
       ELSE /\ parent_chunks' =
                  merge_chunks_with_tolerance(split_on_headers(blocks),
                                              max_length * 2, max_length \div 2)
            /\ md_chunks' = [i \in DOMAIN parent_chunks' |->
                                SectionFragments(parent_chunks'[i], max_length)]
            /\ child_chunks' = ChildChunksFrom(md_chunks', parent_chunks', 1)
    /\ UNCHANGED <<atoms, blocks, max_length>>
    /\ UNCHANGED notMdVars

MdNext == ChunkDoc

MdSpec == MdInit /\ [][MdNext]_vars

\* The code blocks of the document: the positions of the start tag and of
\* the end tag of each pre element.
PreBlocks ==
    {se \in (DOMAIN atoms) \X (DOMAIN atoms) :
        /\ atoms[se[1]].kind = "open" /\ atoms[se[1]].tag = "pre"
        /\ atoms[se[2]].kind = "close" /\ atoms[se[2]].tag = "pre"
        /\ se[1] < se[2]
        /\ \A j \in (se[1] + 1)..(se[2] - 1) : atoms[j].kind = "text"}

AtomsOf(str) == SelectSeq(str, IsAtom)

\* str holds the whole of the code block, fences and lines in order.
HoldsWhole(str, se) ==
    \E at \in DOMAIN AtomsOf(str) :
        /\ at + (se[2] - se[1]) <= Len(AtomsOf(str))
        /\ \A j \in 0..(se[2] - se[1]) : AtomsOf(str)[at + j] = se[1] + j

\* str holds some part of the code block.
HoldsPart(str, se) == \E i \in DOMAIN str : str[i] \in se[1]..se[2]

Fragments == Concat(md_chunks)

EmittedHolding(se) ==
    {i \in DOMAIN child_chunks : HoldsPart(child_chunks[i].embed_content, se)}

FragmentsHolding(se) == {i \in DOMAIN Fragments : HoldsPart(Fragments[i], se)}

\* C6 as stated: the whole text of each <pre> element ends up inside exactly
\* one emitted chunk.
C6_PreInExactlyOneChunk ==
    mpc = "done" =>
        \A se \in PreBlocks :
            Cardinality({i \in DOMAIN child_chunks :
                            HoldsWhole(child_chunks[i].embed_content, se)}) = 1

\* C6 amended: each <pre> element is whole inside exactly one merged
\* fragment and no other fragment holds any part of it; the noise filter may
\* discard that fragment, so at most one emitted chunk holds any part of the
\* <pre> and that chunk holds it whole.
C6_PreNeverSplit ==
    mpc = "done" =>
        \A se \in PreBlocks :
            /\ Cardinality(FragmentsHolding(se)) = 1
            /\ \A i \in FragmentsHolding(se) : HoldsWhole(Fragments[i], se)
            /\ Cardinality(EmittedHolding(se)) <= 1
            /\ \A i \in EmittedHolding(se) :
                  HoldsWhole(child_chunks[i].embed_content, se)

\* A code block longer than max_length, in a section that was split, emitted
\* whole in one chunk.
C6_Witness ==
    /\ mpc = "done"
    /\ \E se \in PreBlocks :
          /\ length_fn(Span(se[1], se[2] - se[1] + 1)) > max_length
          /\ Cardinality(EmittedHolding(se)) = 1
          /\ \A i \in EmittedHolding(se) :
                HoldsWhole(child_chunks[i].embed_content, se)
    /\ Len(Fragments) > 1


(***************************************************************************)
(* The code chunker (code_chunker.py).                                     *)
(*                                                                         *)
(* A module is its root node: import statements, assignments to module     *)
(* variables and function definitions, plain or decorated, which may hold  *)
(* nested definitions.  Of a definition the model keeps the identifiers    *)
(* that occur in its decorators, in its parameters and among the           *)
(* statements of its body.                                                 *)
(***************************************************************************)
Reverse(seq) == [i \in 1..Len(seq) |-> seq[Len(seq) + 1 - i]]

\* The head of every module: import a; from m import b, c; v = ...; w = ...
ModuleImports ==
    << [type |-> "import_statement", text |-> "import a", names |-> <<"a">>],
       [type |-> "import_from_statement", text |-> "from m import b, c",
        names |-> <<"b", "c">>] >>

ModuleAssignments ==
    << [type |-> "expression_statement", target |-> "v"],
       [type |-> "expression_statement", target |-> "w"] >>

\* What a definition may look like: decorated with @v.b or not, one
\* parameter x: a or none, and the identifiers of its own statements.
DecoratorSets == {{}, {"b", "v"}}

ParameterLists == {<<>>, << [name |-> "x", annotation |-> <<"a">>, type_text |-> "a"] >>}

BodySets == {{}, {"a", "w"}, {"a", "c", "v", "w", "x"}}

DefinitionShape(d, p, b, kids) ==
    [decorators |-> d, parameters |-> p, body |-> b, nested |-> kids]

\* A definition without nested definitions, and one around w - 1 of them.
LeafDefinitions ==
    {DefinitionShape(d, p, b, <<>>) :
        d \in DecoratorSets, p \in ParameterLists, b \in BodySets}

LeafDefinitionFamily ==
    [w \in 1..MaxDefs |-> IF w = 1 THEN LeafDefinitions ELSE {}]

DefinitionFamily ==
    [w \in 1..MaxDefs |->
        {DefinitionShape(d, p, b, kids) :
            d \in DecoratorSets, p \in ParameterLists, b \in BodySets,
            kids \in SeqsOfWeight(LeafDefinitionFamily, w - 1)}]

ModuleShapes == UNION {SeqsOfWeight(DefinitionFamily, n) : n \in 0..MaxDefs}

\* The definitions get their names in the order of the source.
FunctionNames == <<"f1", "f2", "f3", "f4", "f5", "f6">>

RECURSIVE DefinitionSize(_)
RECURSIVE DefinitionsSize(_)
DefinitionSize(sh) == 1 + DefinitionsSize(sh.nested)
DefinitionsSize(kids) ==
    IF kids = <<>> THEN 0 ELSE DefinitionSize(Head(kids)) + DefinitionsSize(Tail(kids))

RECURSIVE ParseDefinition(_, _)
RECURSIVE ParseDefinitions(_, _)
ParseDefinition(sh, at) ==
    [type |-> IF sh.decorators = {} THEN "function_definition" ELSE "decorated_definition",
     name |-> FunctionNames[at],
     decorators |-> sh.decorators,
     parameters |-> sh.parameters,
     body |-> sh.body,
     nested |-> ParseDefinitions(sh.nested, at + 1)]
ParseDefinitions(kids, at) ==
    IF kids = <<>> THEN <<>>
    ELSE <<ParseDefinition(Head(kids), at)>>
             \o ParseDefinitions(Tail(kids), at + DefinitionSize(Head(kids)))

\* The number of lines of node.text: the decorator, the def line, one
\* statement, the nested definitions.
RECURSIVE DefinitionLines(_)
RECURSIVE NestedLines(_)
DefinitionLines(node) ==
    (IF node.type = "decorated_definition" THEN 1 ELSE 0) + 2 + NestedLines(node.nested)
NestedLines(kids) ==
    IF kids = <<>> THEN 0 ELSE DefinitionLines(Head(kids)) + NestedLines(Tail(kids))

\* A piece of text: what it is, its text and the number of its lines.
Line(kind, line_text, lines) == [kind |-> kind, text |-> line_text, lines |-> lines]

RECURSIVE CountLines(_)
CountLines(str) == IF str = <<>> THEN 0 ELSE Head(str).lines + CountLines(Tail(str))

\* The statements of a class body: a docstring, and the assignment x = w.
Statement(child, stmt_text, identifiers) ==
    [type |-> "expression_statement", child |-> child, text |-> stmt_text,
     identifiers |-> identifiers]

ClassStatements == {Statement("string", "doc", {}), Statement("assignment", "x = w", {"w", "x"})}

\* The functions of a class body: with decorators or not, or around a
\* nested function.
MethodShapes ==
    {DefinitionShape(d, <<>>, {}, <<>>) : d \in DecoratorSets}
        \cup {DefinitionShape({}, <<>>, {}, <<DefinitionShape({}, <<>>, {}, <<>>)>>)}

MemberShapes ==
    {[kind |-> "statement", node |-> st] : st \in ClassStatements}
        \cup {[kind |-> "init", node |-> DefinitionShape(d, <<>>, {}, <<>>)] :
                 d \in DecoratorSets}
        \cup {[kind |-> "method", node |-> sh] : sh \in MethodShapes}

RECURSIVE MembersUpTo(_)
MembersUpTo(n) ==
    IF n = 0 THEN {<<>>}
    ELSE MembersUpTo(n - 1)
             \cup {Append(ms, m) : ms \in {q \in MembersUpTo(n - 1) : Len(q) = n - 1},
                                   m \in MemberShapes}

RECURSIVE ParseMembers(_, _)
ParseMembers(shapes, at) ==
    IF shapes = <<>> THEN <<>>
    ELSE LET m == Head(shapes)
         IN IF m.kind = "statement"
            THEN <<m.node>> \o ParseMembers(Tail(shapes), at)
            ELSE << IF m.kind = "init"
                    THEN [ParseDefinition(m.node, at) EXCEPT !.name = "__init__"]
                    ELSE ParseDefinition(m.node, at) >>
                     \o ParseMembers(Tail(shapes), at + DefinitionSize(m.node))

\* The class K of the module: decorated with @v.b or not, with the base
\* class a or none.
ParseClass(decorators, bases, shapes) ==
    [type |-> IF decorators = {} THEN "class_definition" ELSE "decorated_definition",
     name |-> "K",
     decorators |-> decorators,
     bases |-> bases,
     members |-> ParseMembers(shapes, 1)]

IsClass(node) == "bases" \in DOMAIN node

IsAttribute(member) == member.type = "expression_statement" /\ member.child = "assignment"

IsMethod(member) == member.type \in {"function_definition", "decorated_definition"}

\* node.text of a class: the decorator, the class line as written, and
\* every statement and function of the body.
ClassLine(node) ==
    Line("class line", IF node.bases = <<>> THEN "class K:" ELSE "class K(a):", 1)

MemberText(member) ==
    IF IsMethod(member)
    THEN Line("definition", member.name, DefinitionLines(member))
    ELSE Line("statement", member.text, 1)

ClassText(node) ==
    (IF node.type = "decorated_definition" THEN <<Line("decorator", "@v.b", 1)>> ELSE <<>>)
        \o <<ClassLine(node)>>
        \o [i \in DOMAIN node.members |-> MemberText(node.members[i])]

\* collect_imports (lines 17-22).
collect_imports(node) ==
    SelectSeq(node.children,
              LAMBDA child : child.type \in {"import_statement", "import_from_statement"})

\* build_import_map (lines 25-45): name -> text of the import statement.
RECURSIVE ImportMapFrom(_, _, _)
ImportMapFrom(import_nodes, i, import_map) ==
    IF i > Len(import_nodes) THEN import_map
    ELSE ImportMapFrom(import_nodes, i + 1,
             [name \in DOMAIN import_map \cup Range(import_nodes[i].names) |->
                 IF name \in Range(import_nodes[i].names)
                 THEN import_nodes[i].text ELSE import_map[name]])

build_import_map(import_nodes) == ImportMapFrom(import_nodes, 1, <<>>)

\* collect_module_variables (lines 48-58).
collect_module_variables(node) ==
    LET assignments == SelectSeq(node.children,
                                 LAMBDA child : child.type = "expression_statement")
    IN [i \in DOMAIN assignments |-> assignments[i].target]

\* collect_identifiers on a parameter list: every identifier in it.
ParameterIdentifiers(parameters) ==
    UNION {{parameters[i].name} \cup Range(parameters[i].annotation) :
              i \in DOMAIN parameters}

\* collect_identifiers (lines 61-73) on a definition: of a function
\* definition the parameters only; of a decorated definition the decorators
\* and the parameters of the function in it, or the decorators alone when
\* a class is in it.
collect_identifiers(node) ==
    IF node.type = "function_definition"
    THEN ParameterIdentifiers(node.parameters)
    ELSE IF IsClass(node)
    THEN node.decorators
    ELSE node.decorators \cup ParameterIdentifiers(node.parameters)

\* collect_identifiers on the body of a function: its own statements and
\* what collect_identifiers finds on the definitions nested in it.
BodyIdentifiers(node) ==
    node.body \cup UNION {collect_identifiers(node.nested[i]) : i \in DOMAIN node.nested}

\* collect_identifiers_from_type_annotations (lines 76-81) on a parameter
\* list: the names, and the text of each type as a whole.
collect_identifiers_from_type_annotations(parameters) ==
    UNION {{parameters[i].name}
               \cup (IF parameters[i].annotation = <<>> THEN {}
                     ELSE {parameters[i].type_text}) :
              i \in DOMAIN parameters}

\* Iterating over a Python set of strings: the order follows the hashes of
\* the strings, which the seed of the interpreter decides.  Two of the
\* orders are modelled.
HashSeeds == {0, 1}

HashOrder == <<"a", "b", "c", "v", "w", "x", "import a", "from m import b, c">>

Iterate(S, seed) ==
    LET ascending == SelectSeq(HashOrder, LAMBDA e : e \in S)
    IN IF seed = 0 THEN ascending ELSE Reverse(ascending)

\* Lines 157-172: the imports and the module variables of the identifiers.
\* (UsedImportsAll, UsedModuleVarsAll: attaching all of them whatever the
\* identifiers.)
UsedImportsAll(identifiers, import_map, seed) ==
    Iterate({import_map[ident] : ident \in DOMAIN import_map}, seed)
UsedImports(identifiers, import_map, seed) ==
    Iterate({import_map[ident] : ident \in identifiers \cap DOMAIN import_map}, seed)

UsedModuleVarsAll(identifiers, module_variables, seed) ==
    Iterate(Range(module_variables), seed)
UsedModuleVars(identifiers, module_variables, seed) ==
    SelectSeq(Iterate(identifiers, seed), LAMBDA ident : ident \in Range(module_variables))

\* A context: a key that is absent is the empty list or the empty name,
\* None the context without any key.
EmptyContext == [parent_class |-> "", parent_function |-> ""]

FuncContext(identifiers, context, import_map, module_variables, seed) ==
    [imports |-> UsedImports(identifiers, import_map, seed),
     module_variables |-> UsedModuleVars(identifiers, module_variables, seed),
     parent_class |-> context.parent_class,
     parent_function |-> context.parent_function]

IsNone(func_context) ==
    /\ func_context.imports = <<>>
    /\ func_context.module_variables = <<>>
    /\ func_context.parent_class = ""
    /\ func_context.parent_function = ""

Definition(node) ==
    IF IsClass(node)
    THEN [name |-> node.name, lines |-> CountLines(ClassText(node)), parts |-> ClassText(node)]
    ELSE [name |-> node.name, lines |-> DefinitionLines(node)]

\* process_decorated_definition (lines 84-136).
process_decorated_definition(node, context, import_map, module_variables, seed) ==
    << [type |-> IF IsClass(node) THEN "class"
                 ELSE IF context.parent_class # "" THEN "method" ELSE "function",
        name |-> node.name,
        definition |-> Definition(node),
        context |-> FuncContext(collect_identifiers(node), context,
                                import_map, module_variables, seed)] >>

\* process_function (lines 139-209).
RECURSIVE process_function(_, _, _, _, _)
RECURSIVE ProcessNested(_, _, _, _, _, _, _)
process_function(node, context, import_map, module_variables, seed) ==
    << [type |-> IF context.parent_class # "" THEN "method" ELSE "function",
        name |-> node.name,
        definition |-> Definition(node),
        context |-> FuncContext(BodyIdentifiers(node)
                                    \cup collect_identifiers_from_type_annotations(
                                             node.parameters),
                                context, import_map, module_variables, seed)] >>
        \o ProcessNested(node.nested, 1, node.name, context,
                         import_map, module_variables, seed)
ProcessNested(kids, i, func_name, context, import_map, module_variables, seed) ==
    IF i > Len(kids) THEN <<>>
    ELSE (IF kids[i].type = "function_definition"
          THEN process_function(kids[i], [context EXCEPT !.parent_function = func_name],
                                import_map, module_variables, seed)
          ELSE process_decorated_definition(kids[i], context,
                                            import_map, module_variables, seed))
             \o ProcessNested(kids, i + 1, func_name, context,
                              import_map, module_variables, seed)

\* process_class (lines 212-309): the chunk of the class, made of the line
\* "class " + class_name + ":", the assignments of the body and the last
\* __init__, then the chunks of the other functions of the body.
RECURSIVE ProcessMethods(_, _, _, _, _, _)
ProcessMethods(other_methods, i, context_copy, import_map, module_variables, seed) ==
    IF i > Len(other_methods) THEN <<>>
    ELSE (IF other_methods[i].type = "decorated_definition"
          THEN process_decorated_definition(other_methods[i], context_copy,
                                            import_map, module_variables, seed)
          ELSE process_function(other_methods[i], context_copy,
                                import_map, module_variables, seed))
             \o ProcessMethods(other_methods, i + 1, context_copy,
                               import_map, module_variables, seed)

ClassDefinitionLines(node) ==
    LET class_attributes == SelectSeq(node.members, IsAttribute)
        inits == SelectSeq(node.members,
                           LAMBDA m : IsMethod(m) /\ m.name = "__init__")
    IN <<Line("class line", "class K:", 1)>>
           \o [i \in DOMAIN class_attributes |->
                  Line("statement", class_attributes[i].text, 1)]
           \o (IF inits = <<>> THEN <<>>
               ELSE <<Line("blank", "", 2), MemberText(inits[Len(inits)])>>)

process_class(node, context, import_map, module_variables, seed) ==
    LET class_attributes == SelectSeq(node.members, IsAttribute)
        other_methods == SelectSeq(node.members,
                                   LAMBDA m : IsMethod(m) /\ m.name # "__init__")
        identifiers == UNION {class_attributes[i].identifiers :
                                 i \in DOMAIN class_attributes}
    IN << [type |-> "class",
           name |-> node.name,
           definition |-> [name |-> node.name,
                           lines |-> CountLines(ClassDefinitionLines(node)),
                           parts |-> ClassDefinitionLines(node)],
           context |-> FuncContext(identifiers, EmptyContext,
                                   import_map, module_variables, seed)] >>
           \o ProcessMethods(other_methods, 1, [context EXCEPT !.parent_class = node.name],
                             import_map, module_variables, seed)

\* process_root (lines 312-348).
RECURSIVE ProcessRootFrom(_, _, _, _, _)
ProcessRootFrom(nodes, i, import_map, module_variables, seed) ==
    IF i > Len(nodes) THEN <<>>
    ELSE (IF nodes[i].type = "class_definition"
          THEN process_class(nodes[i], EmptyContext, import_map, module_variables, seed)
          ELSE IF nodes[i].type = "function_definition"
          THEN process_function(nodes[i], EmptyContext, import_map, module_variables, seed)
          ELSE IF nodes[i].type = "decorated_definition"
          THEN process_decorated_definition(nodes[i], EmptyContext,
                                            import_map, module_variables, seed)
          ELSE <<>>)
             \o ProcessRootFrom(nodes, i + 1, import_map, module_variables, seed)

process_root(node, import_map, module_variables, seed) ==
    ProcessRootFrom(node.children, 1, import_map, module_variables, seed)


\* convert_chunks_to_strs (lines 351-382): a chunk text is its lines.
ContextStr(chunk_context) ==
    [i \in DOMAIN chunk_context.imports |-> Line("import", chunk_context.imports[i], 1)]
        \o [i \in DOMAIN chunk_context.module_variables |->
               Line("variable", chunk_context.module_variables[i], 1)]
        \o (IF chunk_context.parent_class # ""
            THEN << Line("blank", "", 1), Line("class", chunk_context.parent_class, 1),
                    Line("more", "    # ... (more)", 1) >>
            ELSE <<>>)
        \o (IF chunk_context.parent_function # ""
            THEN << Line("blank", "", 1), Line("def", chunk_context.parent_function, 1),
                    Line("more", "    # ... ( (more)", 1) >>
            ELSE <<>>)

ChunkStr(chunk) ==
    LET indented == \/ chunk.context.parent_class # ""
                    \/ chunk.context.parent_function # ""
        definition == Line(IF indented THEN "indented definition" ELSE "definition",
                           chunk.definition.name, chunk.definition.lines)
    IN IF IsNone(chunk.context) \/ chunk.type = "module"
       THEN <<definition>>
       ELSE ContextStr(chunk.context) \o <<Line("blank", "", 1)>> \o <<definition>>

convert_chunks_to_strs(code_chunks) == [i \in DOMAIN code_chunks |-> ChunkStr(code_chunks[i])]

\* Line 397: len(x.strip().splitlines()) > 1.
RECURSIVE LStripBlank(_)
LStripBlank(str) ==
    IF str # <<>> /\ Head(str).kind = "blank" THEN LStripBlank(Tail(str)) ELSE str

KeepStr(chunk_str) == CountLines(LStripBlank(chunk_str)) > 1

\* chunk_code (lines 385-410): the chunks of process_root and their texts.
RootChunks(node, seed) ==
    process_root(node, build_import_map(collect_imports(node)),
                 collect_module_variables(node), seed)

chunk_code(node, seed) == SelectSeq(convert_chunks_to_strs(RootChunks(node, seed)), KeepStr)

(***************************************************************************)
(* CodeSpec: chunk_code on every module of up to MaxDefs definitions, and  *)
(* once more, in the same interpreter or in a new one.                     *)
(***************************************************************************)
CodeInit ==
    /\ SearchIdle
    /\ KamradtIdle
    /\ MdIdle
    /\ RetrieverIdle
    /\ ImageIdle
    /\ FanoutIdle
    /\ CaptionIdle
    /\ DispatchIdle
    /\ IndexIdle
    /\ cpc = "start"
    /\ \E shape \in ModuleShapes :
          root_node = [type |-> "module",
                       children |-> ModuleImports \o ModuleAssignments
                                        \o ParseDefinitions(shape, 1)]
    /\ hash_seed \in HashSeeds
    /\ restarted = FALSE
    /\ root_chunks = <<>>
    /\ chunks_strs = <<>>
    /\ rechunked_strs = <<>>

ChunkCode ==
    /\ cpc = "start"
    /\ cpc' = "chunked"
    /\ root_chunks' = RootChunks(root_node, hash_seed)
    /\ chunks_strs' = chunk_code(root_node, hash_seed)
    /\ UNCHANGED <<root_node, hash_seed, restarted, rechunked_strs>>
    /\ UNCHANGED notCodeVars

\* A new interpreter process runs the next chunking: its hash seed is drawn
\* anew (PYTHONHASHSEED is random unless set).
Restart ==
    /\ cpc = "chunked"
    /\ ~restarted
    /\ restarted' = TRUE
    /\ hash_seed' \in HashSeeds
    /\ UNCHANGED <<cpc, root_node, root_chunks, chunks_strs, rechunked_strs>>
    /\ UNCHANGED notCodeVars

RechunkCode ==
    /\ cpc = "chunked"
    /\ cpc' = "rechunked"
    /\ rechunked_strs' = chunk_code(root_node, hash_seed)
    /\ UNCHANGED <<root_node, hash_seed, restarted, root_chunks, chunks_strs>>
    /\ UNCHANGED notCodeVars

CodeNext == ChunkCode \/ Restart \/ RechunkCode

CodeSpec == CodeInit /\ [][CodeNext]_vars

\* The definitions of the module, the nested ones among them.
RECURSIVE DefinitionsIn(_)
DefinitionsIn(nodes) ==
    IF nodes = <<>> THEN {}
    ELSE {Head(nodes)} \cup DefinitionsIn(Head(nodes).nested) \cup DefinitionsIn(Tail(nodes))

AllDefinitions ==
    DefinitionsIn(SelectSeq(root_node.children,
                            LAMBDA child : child.type \in {"function_definition",
                                                           "decorated_definition"}))

NodeNamed(name) == CHOOSE node \in AllDefinitions : node.name = name

\* The identifiers that occur in the text of the signature, of the body
\* (nested definitions are part of it) and of the whole definition.
SignatureText(node) == ParameterIdentifiers(node.parameters)

RECURSIVE DefinitionText(_)
RECURSIVE NestedText(_)
DefinitionText(node) ==
    node.decorators \cup SignatureText(node) \cup node.body \cup NestedText(node.nested)
NestedText(kids) ==
    IF kids = <<>> THEN {} ELSE DefinitionText(Head(kids)) \cup NestedText(Tail(kids))

BodyText(node) == node.body \cup NestedText(node.nested)

ImportMap == build_import_map(collect_imports(root_node))

ModuleVariables == Range(collect_module_variables(root_node))

\* The function chunks that are emitted: those whose text passes line 397.
EmittedFunctionChunks ==
    {i \in DOMAIN root_chunks :
        /\ root_chunks[i].type \in {"function", "method"}
        /\ KeepStr(ChunkStr(root_chunks[i]))}

ImportsOf(i) == Range(root_chunks[i].context.imports)

ImportsReferencedIn(identifiers) ==
    {ImportMap[name] : name \in identifiers \cap DOMAIN ImportMap}

\* C7 as stated: the imports of every function chunk are a strict subset of
\* the import map and belong to names referenced in the body or the
\* signature of the function.
C7_ImportsStrictSubsetOfBodyAndSignature ==
    cpc \in {"chunked", "rechunked"} =>
        \A i \in EmittedFunctionChunks :
            LET node == NodeNamed(root_chunks[i].name)
            IN /\ ImportsOf(i) \subseteq Range(ImportMap)
               /\ ImportsOf(i) # Range(ImportMap)
               /\ ImportsOf(i) \subseteq
                      ImportsReferencedIn(BodyText(node) \cup SignatureText(node))

\* C7 amended: the imports of every function chunk are a subset of the
\* import statements of the module, all of them when the function refers to
\* all, and each is the statement of a name that occurs in the definition:
\* in its decorators, its signature or its body.
C7_ImportsSubsetOfDefinitionText ==
    cpc \in {"chunked", "rechunked"} =>
        \A i \in EmittedFunctionChunks :
            /\ ImportsOf(i) \subseteq Range(ImportMap)
            /\ ImportsOf(i) \subseteq
                   ImportsReferencedIn(DefinitionText(NodeNamed(root_chunks[i].name)))

\* One function chunk carries every import statement of the module, another
\* an import that only its decorator refers to.
C7_Witness ==
    /\ cpc = "chunked"
    /\ \E i \in EmittedFunctionChunks : ImportsOf(i) = Range(ImportMap)
    /\ \E i \in EmittedFunctionChunks :
          LET node == NodeNamed(root_chunks[i].name)
          IN /\ node.type = "decorated_definition"
             /\ ImportsOf(i) # {}
             /\ ImportsOf(i) \cap ImportsReferencedIn(BodyText(node) \cup SignatureText(node)) = {}

VariablesOf(i) == Range(root_chunks[i].context.module_variables)

C9_RechunkIsByteIdentical ==
    cpc = "rechunked" => rechunked_strs = chunks_strs


(***************************************************************************)
(* HybridRetriever.retrieve_and_rerank (docstore.py).                      *)
(*                                                                         *)
(* The table holds five rows; two of them, A and A2, are chunks of the     *)
(* same parent section and carry the same content.                         *)
(***************************************************************************)
Row(content, embed_content) == [content |-> content, embed_content |-> embed_content]

Rows == {Row("A", "a"), Row("A", "a2"), Row("B", "b"), Row("C", "c"), Row("D", "d")}

\* The lists of up to n distinct rows.
HitLists(n) ==
    {hits \in SeqsUpTo(Rows, n) :
        \A i, j \in DOMAIN hits : i # j => hits[i] # hits[j]}

Take(seq, n) == SubSeq(seq, 1, IF n < Len(seq) THEN n ELSE Len(seq))

\* The hybrid search of the table: the rows of the two result lists, each
\* row once, interleaved by rank; first leads where the ranks tie.
RECURSIVE Interleave(_, _, _)
Interleave(first, second, seen) ==
    IF first = <<>> /\ second = <<>> THEN <<>>
    ELSE IF first = <<>> THEN Interleave(second, <<>>, seen)
    ELSE IF Head(first) \in seen THEN Interleave(second, Tail(first), seen)
    ELSE <<Head(first)>> \o Interleave(second, Tail(first), seen \cup {Head(first)})

HybridSearch(dense, lexical) ==
    {Interleave(dense, lexical, {}), Interleave(lexical, dense, {})}

\* Lines 109-112: a dict keyed by content, then its values: a content keeps
\* the place of its first document and the value of its last.
\* (DedupFromFirst: a content keeps the value of its first document.)
RECURSIVE DedupFromFirst(_, _, _)
DedupFromFirst(docs, i, values) ==
    IF i > Len(docs) THEN values
    ELSE IF \E j \in DOMAIN values : values[j].content = docs[i].content
         THEN DedupFromFirst(docs, i + 1, values)
         ELSE DedupFromFirst(docs, i + 1, Append(values, docs[i]))
RECURSIVE DedupFrom(_, _, _)
DedupFrom(docs, i, values) ==
    IF i > Len(docs) THEN values
    ELSE IF \E j \in DOMAIN values : values[j].content = docs[i].content
         THEN DedupFrom(docs, i + 1,
                        [j \in DOMAIN values |->
                            IF values[j].content = docs[i].content
                            THEN docs[i] ELSE values[j]])
         ELSE DedupFrom(docs, i + 1, Append(values, docs[i]))

\* (DedupKeepAll: no dedup at all.)
DedupKeepAll(docs) == docs
Dedup(docs) == DedupFrom(docs, 1, <<>>)

\* The response of the rerank service: the indices of the documents it was
\* sent, by relevance, the top_n best.  Two relevance orders are modelled.
RerankResponses(docs, top_n) ==
    LET indices == [i \in 1..Len(docs) |-> i]
    IN {Take(indices, top_n), Take(Reverse(indices), top_n)}

\* Line 93: the texts of the documents, as sent to the service.
RerankDocuments(docs) == [i \in DOMAIN docs |-> docs[i].embed_content]

\* rerank (lines 79-105), given the response of the service.
\* (rerank_unranked: the documents in the order they were sent.)
rerank_unranked(docs, response, top_n) == Take(docs, top_n)
rerank(docs, response, top_n) ==
    Take([i \in DOMAIN response |-> docs[response[i]]], top_n)

(***************************************************************************)
(* RetrieverSpec: retrieve_and_rerank(query, k), a step per await.         *)
(***************************************************************************)
Ks == {1, 2}

RetrieverInit ==
    /\ SearchIdle
    /\ KamradtIdle
    /\ MdIdle
    /\ CodeIdle
    /\ ImageIdle
    /\ FanoutIdle
    /\ CaptionIdle
    /\ DispatchIdle
    /\ IndexIdle
    /\ rpc = "start"
    /\ dense_hits \in HitLists(MaxHits)
    /\ lexical_hits \in HitLists(MaxHits)
    /\ k \in Ks
    /\ documents = <<>>
    /\ deduped_docs = <<>>
    /\ reranked_docs = <<>>
    /\ service_response = [status |-> "none", results |-> <<>>]
    /\ call_log = <<>>

\* Line 108: documents = await self.retrieve(query, k=k * 20).
Retrieve ==
    /\ rpc = "start"
    /\ rpc' = "retrieved"
    /\ \E result \in HybridSearch(dense_hits, lexical_hits) :
          documents' = Take(result, k * 20)
    /\ call_log' = Append(call_log, [step |-> "retrieve", k |-> k * 20])
    /\ UNCHANGED <<dense_hits, lexical_hits, k, deduped_docs, reranked_docs,
                   service_response>>
    /\ UNCHANGED notRetrieverVars

\* Lines 93-99: one call of the rerank service with all the documents;
\* top_n or len(docs) is its top_n.
ARerankCall(docs, top_n) ==
    <<[step |-> "arerank", documents |-> RerankDocuments(docs),
       top_n |-> IF top_n # 0 THEN top_n ELSE Len(docs)]>>

\* (DedupDocsRerankEach: a call of the rerank service for every candidate.)
DedupDocsRerankEach ==
    /\ rpc = "retrieved"
    /\ rpc' = "reranking"
    /\ deduped_docs' = Dedup(documents)
    /\ call_log' = call_log \o <<[step |-> "dedup"]>>
                       \o [i \in DOMAIN Dedup(documents) |->
                              ARerankCall(<<Dedup(documents)[i]>>, k * 2)[1]]
    /\ UNCHANGED <<dense_hits, lexical_hits, k, documents, reranked_docs,
                   service_response>>
    /\ UNCHANGED notRetrieverVars

\* Lines 109-113: the dedup, up to the call of rerank.
DedupDocs ==
    /\ rpc = "retrieved"
    /\ rpc' = "reranking"
    /\ deduped_docs' = Dedup(documents)
    /\ call_log' = call_log \o <<[step |-> "dedup"]>> \o ARerankCall(Dedup(documents), k * 2)
    /\ UNCHANGED <<dense_hits, lexical_hits, k, documents, reranked_docs,
                   service_response>>
    /\ UNCHANGED notRetrieverVars

\* Lines 113-115: the service answers; the best k of the reranked documents
\* are returned.
RerankReturn ==
    /\ rpc = "reranking"
    /\ rpc' = "done"
    /\ \E response \in RerankResponses(deduped_docs, k * 2) :
          /\ service_response' = [status |-> "ok", results |-> response]
          /\ reranked_docs' = Take(rerank(deduped_docs, response, k * 2), k)
    /\ call_log' = Append(call_log, [step |-> "truncate", k |-> k])
    /\ UNCHANGED <<dense_hits, lexical_hits, k, documents, deduped_docs>>
    /\ UNCHANGED notRetrieverVars

\* Line 113: the call of the service raises; nothing is returned.
\* (RerankFailFallback: the unranked candidates are returned instead.)
RerankFailFallback ==
    /\ rpc = "reranking"
    /\ rpc' = "done"
    /\ service_response' = [status |-> "error", results |-> <<>>]
    /\ reranked_docs' = Take(deduped_docs, k)
    /\ call_log' = Append(call_log, [step |-> "truncate", k |-> k])
    /\ UNCHANGED <<dense_hits, lexical_hits, k, documents, deduped_docs>>
    /\ UNCHANGED notRetrieverVars
RerankFail ==
    /\ rpc = "reranking"
    /\ rpc' = "failed"
    /\ service_response' = [status |-> "error", results |-> <<>>]
    /\ UNCHANGED <<dense_hits, lexical_hits, k, documents, deduped_docs, reranked_docs,
                   call_log>>
    /\ UNCHANGED notRetrieverVars

RetrieverNext == Retrieve \/ DedupDocs \/ RerankReturn \/ RerankFail

RetrieverSpec == RetrieverInit /\ [][RetrieverNext]_vars

Contents(docs) == {docs[i].content : i \in DOMAIN docs}

\* C10: the candidates handed to the reranker hold each distinct content of
\* the retrieved documents exactly once and nothing else; for the dense
\* results A, B, C and the lexical results C, D, A they are A, B, C and D.
C10_CandidatesAreDistinctContents ==
    rpc \in {"reranking", "done", "failed"} =>
        /\ Contents(deduped_docs) = Contents(documents)
        /\ \A c \in Contents(documents) :
              Cardinality({i \in DOMAIN deduped_docs : deduped_docs[i].content = c}) = 1
        /\ \A i \in DOMAIN deduped_docs : deduped_docs[i] \in Range(documents)
        /\ ( /\ [i \in DOMAIN dense_hits |-> dense_hits[i].content] = <<"A", "B", "C">>
             /\ [i \in DOMAIN lexical_hits |-> lexical_hits[i].content] = <<"C", "D", "A">> )
               => Contents(deduped_docs) = {"A", "B", "C", "D"}

\* The scenario of the claim, with two retrieved rows of content A.
C10_Witness ==
    /\ rpc = "reranking"
    /\ [i \in DOMAIN dense_hits |-> dense_hits[i].content] = <<"A", "B", "C">>
    /\ [i \in DOMAIN lexical_hits |-> lexical_hits[i].content] = <<"C", "D", "A">>
    /\ Len(documents) = 5
    /\ Len(deduped_docs) = 4


\* C11: retrieve_and_rerank returns at most k chunks, the first k of the
\* results of the reranker in the order of the reranker, each a candidate
\* that was sent to it, and no two of them with the same content.
C11_FirstKInRerankerOrder ==
    rpc = "done" =>
        LET results == service_response.results
            ranked == [i \in DOMAIN results |-> deduped_docs[results[i]]]
        IN /\ Len(reranked_docs) <= k
           /\ reranked_docs = Take(ranked, k)
           /\ \A i \in DOMAIN reranked_docs : reranked_docs[i] \in Range(deduped_docs)
           /\ \A i, j \in DOMAIN reranked_docs :
                 i # j => reranked_docs[i].content # reranked_docs[j].content

\* The reranker put the last candidate first and returned more than k.
C11_Witness ==
    /\ rpc = "done"
    /\ Len(service_response.results) > k
    /\ Len(deduped_docs) > 1
    /\ service_response.results[1] = Len(deduped_docs)
    /\ Len(reranked_docs) = k

\* C12: when the call of the rerank service fails, retrieve_and_rerank
\* fails: it returns no list, and the deduplicated candidates are not
\* returned in its place.
C12_RerankFailurePropagates ==
    service_response.status = "error" =>
        /\ rpc = "failed"
        /\ reranked_docs = <<>>

\* The service failed on a non-empty list of candidates.
C12_Witness ==
    /\ rpc = "failed"
    /\ service_response.status = "error"
    /\ deduped_docs # <<>>


\* C13: every chunk the similarity chunker emits for a text with at least
\* one sentence has non-empty text, also when sentences are longer than
\* min_chunk_size.
C13_ChunkTextNonEmpty ==
    (kpc = "done" /\ SentencesOf(text) # <<>>) =>
        \A i \in DOMAIN chunks : chunks[i] # <<>>


\* The tokens of the markdown of one code block.
NodeTokens(se) == length_fn(html_to_md(Span(se[1], se[2] - se[1] + 1)))

\* The chunk text holds a node that cannot be split, a text or a code block,
\* that by itself is longer than max_length.
HoldsOversizedNode(str) ==
    \/ \E i \in DOMAIN str : IsAtom(str[i]) /\ atoms[str[i]].tokens > max_length
    \/ \E se \in PreBlocks : NodeTokens(se) > max_length /\ HoldsPart(str, se)

EmbedTokens(i) == length_fn(child_chunks[i].embed_content)

\* C14 as stated: every emitted chunk has at most max_length tokens to
\* embed, unless a single node in it is by itself longer than max_length.
C14_EmbedTokensWithinMaxLength ==
    mpc = "done" =>
        \A i \in DOMAIN child_chunks :
            \/ EmbedTokens(i) <= max_length
            \/ HoldsOversizedNode(child_chunks[i].embed_content)


(***************************************************************************)
(* ImageSpec: fetch_most_relevant_image (response_generation.py 73-90),    *)
(* one step per iteration of its loop, for every dataset of two documents  *)
(* and every list of retrieved chunks.                                     *)
(***************************************************************************)
\* The value None.
None == [document_idx |-> 0, image_idx |-> -1]

\* chunk["metadata"]["number_of_images"], which chunk_single_document
\* sets to len(document["images"]) (chunking.py 258).
number_of_images(chunk) == dataset[chunk]

Datasets == [1..2 -> 0..MaxImages]

\* image_retriever.predict(..., top_k=1)[0]["image_idx"]: one of the
\* document's images.
ImageIndices(document_idx) == 0..(dataset[document_idx] - 1)

ImageInit ==
    /\ ipc = "scan"
    /\ dataset \in Datasets
    /\ retrieved_chunks \in SeqsUpTo(1..2, MaxChunks)
    /\ scanned = 0
    /\ consulted = <<>>
    /\ most_relevant_image = None
    /\ SearchIdle
    /\ KamradtIdle
    /\ MdIdle
    /\ CodeIdle
    /\ RetrieverIdle
    /\ FanoutIdle
    /\ CaptionIdle
    /\ DispatchIdle
    /\ IndexIdle

\* Lines 77-78: a chunk without images is passed over.
SkipChunk ==
    /\ ipc = "scan"
    /\ scanned < Len(retrieved_chunks)
    /\ ~(number_of_images(retrieved_chunks[scanned + 1]) > 0)
    /\ scanned' = scanned + 1
    /\ UNCHANGED <<ipc, dataset, retrieved_chunks, consulted, most_relevant_image>>
    /\ UNCHANGED notImageVars

\* (ConsultChunkAndContinue: the loop goes on after the retriever was called.)
ConsultChunkAndContinue ==
    /\ ipc = "scan"
    /\ scanned < Len(retrieved_chunks)
    /\ number_of_images(retrieved_chunks[scanned + 1]) > 0
    /\ \E image_idx \in ImageIndices(retrieved_chunks[scanned + 1]) :
          most_relevant_image' = [document_idx |-> retrieved_chunks[scanned + 1],
                                  image_idx |-> image_idx]
    /\ consulted' = Append(consulted, scanned + 1)
    /\ scanned' = scanned + 1
    /\ UNCHANGED <<ipc, dataset, retrieved_chunks>>
    /\ UNCHANGED notImageVars

\* Lines 78-89: the image retriever picks one image of the chunk's document,
\* and the function returns it.
ConsultChunk ==
    /\ ipc = "scan"
    /\ scanned < Len(retrieved_chunks)
    /\ number_of_images(retrieved_chunks[scanned + 1]) > 0
    /\ \E image_idx \in ImageIndices(retrieved_chunks[scanned + 1]) :
          most_relevant_image' = [document_idx |-> retrieved_chunks[scanned + 1],
                                  image_idx |-> image_idx]
    /\ consulted' = Append(consulted, scanned + 1)
    /\ scanned' = scanned + 1
    /\ ipc' = "done"
    /\ UNCHANGED <<dataset, retrieved_chunks>>
    /\ UNCHANGED notImageVars

\* Line 90: the loop ended without a return.
ReturnNone ==
    /\ ipc = "scan"
    /\ scanned = Len(retrieved_chunks)
    /\ most_relevant_image' = None
    /\ ipc' = "done"
    /\ UNCHANGED <<dataset, retrieved_chunks, scanned, consulted>>
    /\ UNCHANGED notImageVars

ImageNext == SkipChunk \/ ConsultChunk \/ ReturnNone

ImageSpec == ImageInit /\ [][ImageNext]_vars

\* The retrieved chunks whose document has images.
ChunksWithImages ==
    {i \in DOMAIN retrieved_chunks : dataset[retrieved_chunks[i]] > 0}

FirstWithImages == CHOOSE i \in ChunksWithImages : \A j \in ChunksWithImages : i <= j

\* C15: the image retriever is consulted at most once, and never for a
\* chunk behind one with images; when the function has returned, it was
\* consulted for exactly the first retrieved chunk with number_of_images > 0
\* and the result is an image of that chunk's document, and the result is
\* None exactly when no retrieved chunk has images.
C15_FirstChunkWithImagesOnly ==
    /\ Len(consulted) <= 1
    /\ \A i \in DOMAIN consulted : consulted[i] = FirstWithImages
    /\ ipc = "done" =>
          /\ (most_relevant_image = None) <=> (ChunksWithImages = {})
          /\ ChunksWithImages = {} => consulted = <<>>
          /\ ChunksWithImages # {} =>
                /\ consulted = <<FirstWithImages>>
                /\ most_relevant_image.document_idx = retrieved_chunks[FirstWithImages]
                /\ most_relevant_image.image_idx
                      \in 0..(dataset[retrieved_chunks[FirstWithImages]] - 1)

\* The first chunk has no images, the second has, and so has a later one.
C15_Witness ==
    /\ ipc = "done"
    /\ Cardinality(ChunksWithImages) > 1
    /\ 1 \notin ChunksWithImages
    /\ consulted = <<2>>
    /\ most_relevant_image.image_idx = 1


(***************************************************************************)
(* FanoutSpec: the sub-query retrievals of chat (generation.py 81-90).     *)
(* Every retriever.invoke is a task of the event loop; it is suspended     *)
(* in retrieve (docstore.py 59) and in rerank (docstore.py 94), so the     *)
(* tasks interleave there.  asyncio.gather is called with its default      *)
(* return_exceptions=False: the first exception of a task is raised in     *)
(* chat at once, and the other tasks are not cancelled.                    *)
(***************************************************************************)
Task(at, result) == [at |-> at, result |-> result]

\* What one retriever.invoke can return.
InvokeResults == {<<>>, <<Row("A", "a")>>, <<Row("B", "b"), Row("A", "a2")>>}

\* Lines 81-83: one task per query, none started.
FanoutInit ==
    /\ fpc = "gather"
    /\ \E n \in 0..MaxQueries : tasks = [i \in 1..n |-> Task("retrieve", <<>>)]
    /\ context_docs = <<>>
    /\ SearchIdle
    /\ KamradtIdle
    /\ MdIdle
    /\ CodeIdle
    /\ RetrieverIdle
    /\ ImageIdle
    /\ CaptionIdle
    /\ DispatchIdle
    /\ IndexIdle

\* docstore.py 109-114: a task gets its documents and goes on to rerank.
TaskRetrieve(i) ==
    /\ tasks[i].at = "retrieve"
    /\ tasks' = [tasks EXCEPT ![i].at = "rerank"]
    /\ UNCHANGED <<fpc, context_docs>>
    /\ UNCHANGED notFanoutVars

\* docstore.py 114-120: a task returns its documents.
TaskReturn(i) ==
    /\ tasks[i].at = "rerank"
    /\ \E result \in InvokeResults : tasks' = [tasks EXCEPT ![i] = Task("finished", result)]
    /\ UNCHANGED <<fpc, context_docs>>
    /\ UNCHANGED notFanoutVars

\* The embedding, the search or the rerank service raises in a task.
TaskRaise(i) ==
    /\ tasks[i].at \in {"retrieve", "rerank"}
    /\ tasks' = [tasks EXCEPT ![i].at = "failed"]
    /\ UNCHANGED <<fpc, context_docs>>
    /\ UNCHANGED notFanoutVars

\* [doc for result in results for doc in result] (line 86).
RECURSIVE Flatten(_)
Flatten(results) ==
    IF results = <<>> THEN <<>> ELSE Head(results).result \o Flatten(Tail(results))

\* (GatherReturnFinished: gather returning what the finished tasks returned
\* once no task is running.)
GatherReturnFinished ==
    /\ fpc = "gather"
    /\ \A i \in DOMAIN tasks : tasks[i].at \in {"finished", "failed"}
    /\ context_docs' = Dedup(Flatten(tasks))
    /\ fpc' = "done"
    /\ UNCHANGED tasks
    /\ UNCHANGED notFanoutVars

\* Lines 85-90: gather returns the results in the order of the tasks once
\* every task has returned, and chat removes the duplicates.
GatherReturn ==
    /\ fpc = "gather"
    /\ \A i \in DOMAIN tasks : tasks[i].at = "finished"
    /\ context_docs' = Dedup(Flatten(tasks))
    /\ fpc' = "done"
    /\ UNCHANGED tasks
    /\ UNCHANGED notFanoutVars

\* Line 85: the exception of a task is raised in chat.
GatherRaise ==
    /\ fpc = "gather"
    /\ \E i \in DOMAIN tasks : tasks[i].at = "failed"
    /\ fpc' = "failed"
    /\ UNCHANGED <<tasks, context_docs>>
    /\ UNCHANGED notFanoutVars

FanoutNext ==
    \/ \E i \in DOMAIN tasks : TaskRetrieve(i) \/ TaskReturn(i) \/ TaskRaise(i)
    \/ GatherReturn
    \/ GatherRaise

FanoutSpec == FanoutInit /\ [][FanoutNext]_vars

Running(i) == tasks[i].at \in {"retrieve", "rerank"}

\* C16 as stated: when the fan-out step has ended, no task is still running;
\* and when a task has failed, the call fails and uses no results.
C16_FanOutEndsAfterAllTasks ==
    /\ fpc \in {"done", "failed"} => \A i \in DOMAIN tasks : ~Running(i)
    /\ (\E i \in DOMAIN tasks : tasks[i].at = "failed") =>
          fpc # "done" /\ context_docs = <<>>

\* C16 amended: the fan-out step returns only after all tasks have
\* returned, with their results in the order of the tasks; when a task
\* fails, the call never returns and uses no results, and it fails only
\* because of a failed task - but it may fail while other tasks are still
\* running.
C16_FanOutReturnsAfterAllTasks ==
    /\ fpc = "done" =>
          /\ \A i \in DOMAIN tasks : tasks[i].at = "finished"
          /\ context_docs = Dedup(Flatten(tasks))
    /\ fpc = "failed" => \E i \in DOMAIN tasks : tasks[i].at = "failed"
    /\ (\E i \in DOMAIN tasks : tasks[i].at = "failed") =>
          fpc # "done" /\ context_docs = <<>>

\* The call has failed while one task is still running and another has
\* returned documents.
C16_Witness ==
    /\ fpc = "failed"
    /\ \E i \in DOMAIN tasks : Running(i)
    /\ \E i \in DOMAIN tasks : tasks[i].at = "finished" /\ tasks[i].result # <<>>


(***************************************************************************)
(* CaptionSpec: generate_image_description (data_loading.py 27-62), one    *)
(* step per image, for every list of images and every outcome of each      *)
(* caption call.                                                           *)
(***************************************************************************)
ImageIds == 1..3

\* What image_description_generator.predict returns for an image.
Describe(image) == <<"Description of the image", image>>

\* Line 61.
ErrorDescription == <<"Error generating image description", 0>>

CaptionInit ==
    /\ gpc = "loop"
    /\ images \in SeqsUpTo(ImageIds, MaxImages)
    /\ image_descriptions = <<>>
    /\ caption_failed = {}
    /\ SearchIdle
    /\ KamradtIdle
    /\ MdIdle
    /\ CodeIdle
    /\ RetrieverIdle
    /\ ImageIdle
    /\ FanoutIdle
    /\ DispatchIdle
    /\ IndexIdle

NextImage == Len(image_descriptions) + 1

\* Lines 32-58: the caption call returns.
CaptionImage ==
    /\ gpc = "loop"
    /\ NextImage <= Len(images)
    /\ image_descriptions' = Append(image_descriptions, Describe(images[NextImage]))
    /\ UNCHANGED <<gpc, images, caption_failed>>
    /\ UNCHANGED notCaptionVars

\* (CaptionRaisesEndsLoop: the loop ends with the image whose caption call
\* raised.)
CaptionRaisesEndsLoop ==
    /\ gpc = "loop"
    /\ NextImage <= Len(images)
    /\ caption_failed' = caption_failed \cup {NextImage}
    /\ image_descriptions' = Append(image_descriptions, ErrorDescription)
    /\ gpc' = "done"
    /\ UNCHANGED images
    /\ UNCHANGED notCaptionVars

\* Lines 59-61: the caption call raises, and the exception is caught.
CaptionRaises ==
    /\ gpc = "loop"
    /\ NextImage <= Len(images)
    /\ caption_failed' = caption_failed \cup {NextImage}
    /\ image_descriptions' = Append(image_descriptions, ErrorDescription)
    /\ UNCHANGED <<gpc, images>>
    /\ UNCHANGED notCaptionVars

\* Line 62.
ReturnDescriptions ==
    /\ gpc = "loop"
    /\ NextImage > Len(images)
    /\ gpc' = "done"
    /\ UNCHANGED <<images, image_descriptions, caption_failed>>
    /\ UNCHANGED notCaptionVars

CaptionNext == CaptionImage \/ CaptionRaises \/ ReturnDescriptions

CaptionSpec == CaptionInit /\ [][CaptionNext]_vars


\* C18: the descriptions are one per image processed, entry i describing
\* image i, or being the error string when the caption call of image i
\* raised; the function never ends with an error, and when it returns there
\* is an entry for every image, also for those behind a failed one.
C18_OneDescriptionPerImage ==
    /\ gpc \in {"loop", "done"}
    /\ Len(image_descriptions) <= Len(images)
    /\ caption_failed \subseteq DOMAIN image_descriptions
    /\ \A i \in DOMAIN image_descriptions :
          image_descriptions[i] = IF i \in caption_failed THEN ErrorDescription
                                  ELSE Describe(images[i])
    /\ gpc = "done" => Len(image_descriptions) = Len(images)

\* The caption call of the first image raised and that of a later one
\* returned.
C18_Witness ==
    /\ gpc = "done"
    /\ 1 \in caption_failed
    /\ \E i \in DOMAIN images : i > 1 /\ image_descriptions[i] = Describe(images[i])


(***************************************************************************)
(* DispatchSpec: chunk_doc of chunker/__init__.py (lines 9-18), for every  *)
(* content of up to MaxContent pieces and every source_type.  What the     *)
(* chunker it calls returns is left open here: any list of up to two       *)
(* chunks of the document.                                                 *)
(***************************************************************************)
SourceTypes == {"Source Code", "Documentation", "Notebook"}

\* The contents: strings of words (1) and white space.
DocContents == SeqsUpTo({1, WS}, MaxContent)

\* (NotContentIsNone: only a missing content counts, which a str never is.)
NotContentIsNone(content) == FALSE

\* not doc.content (line 12): the empty string.
NotContent(content) == content = <<>>

\* The lists of chunks a chunker may return for a document.
ChunkLists(document) ==
    {[i \in 1..n |-> [source_type |-> document.source_type, index |-> i]] : n \in 0..2}

DispatchInit ==
    /\ dpc = "call"
    /\ doc \in [content : DocContents, source_type : SourceTypes]
    /\ chunker_run = "none"
    /\ doc_chunks = <<>>
    /\ SearchIdle
    /\ KamradtIdle
    /\ MdIdle
    /\ CodeIdle
    /\ RetrieverIdle
    /\ ImageIdle
    /\ FanoutIdle
    /\ CaptionIdle
    /\ IndexIdle

\* Lines 12-13.
ReturnEmpty ==
    /\ dpc = "call"
    /\ NotContent(doc.content)
    /\ doc_chunks' = <<>>
    /\ dpc' = "done"
    /\ UNCHANGED <<doc, chunker_run>>
    /\ UNCHANGED notDispatchVars

\* Lines 14-15, 18.
CallChunkCode ==
    /\ dpc = "call"
    /\ ~NotContent(doc.content)
    /\ doc.source_type = "Source Code"
    /\ chunker_run' = "chunk_code"
    /\ doc_chunks' \in ChunkLists(doc)
    /\ dpc' = "done"
    /\ UNCHANGED doc
    /\ UNCHANGED notDispatchVars

\* Lines 16-18.
CallChunkWebDoc ==
    /\ dpc = "call"
    /\ ~NotContent(doc.content)
    /\ doc.source_type # "Source Code"
    /\ chunker_run' = "chunk_web_doc"
    /\ doc_chunks' \in ChunkLists(doc)
    /\ dpc' = "done"
    /\ UNCHANGED doc
    /\ UNCHANGED notDispatchVars

DispatchNext == ReturnEmpty \/ CallChunkCode \/ CallChunkWebDoc

DispatchSpec == DispatchInit /\ [][DispatchNext]_vars

\* C19: chunk_doc never ends with an error, and for a document with empty
\* content it returns the empty list and has called neither chunker,
\* whatever the source_type.
C19_EmptyContentNoChunks ==
    /\ dpc \in {"call", "done"}
    /\ doc.content = <<>> => chunker_run = "none" /\ doc_chunks = <<>>

\* chunk_doc has returned for a source-code document with empty content.
C19_Witness ==
    dpc = "done" /\ doc.content = <<>> /\ doc.source_type = "Source Code"


(***************************************************************************)
(* IndexSpec: HybridRetriever.index (docstore.py 46-55) over iter_data     *)
(* (15-34), for every corpus of up to MaxCorpus chunks, batches of         *)
(* BatchSize chunks and up to MaxCalls calls one after the other.  The     *)
(* table is the one load() opens (122-129); what create_table leaves of it *)
(* when its data raises, or is empty, is the database's affair: each       *)
(* outcome is a step of its own.                                           *)
(***************************************************************************)
\* The embed_content of the chunks.
ChunkTexts == {"p", "q"}

Corpora == SeqsUpTo(ChunkTexts, MaxCorpus)

\* The row of a chunk with its vector.
TableRow(embed_content, vector) == [embed_content |-> embed_content, vector |-> vector]

\* The rows of a table built from a corpus, one per chunk in corpus order.
RowsOf(docs) == [i \in DOMAIN docs |-> TableRow(docs[i], <<"vector", docs[i]>>)]

\* embed_documents(doc_batch, ...) as line 30 calls it: the function is a
\* coroutine function (utils.py 244-247) and the call is not awaited, so
\* its value is the coroutine and not the list of vectors.
embed_documents(doc_batch) == [type |-> "coroutine", doc_batch |-> doc_batch]

\* zip(corpus_batch, vectors) raises TypeError unless vectors is iterable.
IsIterable(value) == value.type = "list"

\* Lines 24-27: docs[i : i + batch_size] for i in range(0, len(docs), batch_size).
RECURSIVE Batches(_, _)
Batches(docs, batch_size) ==
    IF docs = <<>> THEN <<>>
    ELSE IF Len(docs) <= batch_size THEN <<docs>>
    ELSE <<SubSeq(docs, 1, batch_size)>>
            \o Batches(SubSeq(docs, batch_size + 1, Len(docs)), batch_size)

\* Lines 28-34: the run of the generator, what it yields and whether it ends
\* in an exception.  Every yield is the list output as it stands, the rows
\* of the batches before included.
RECURSIVE IterDataFrom(_, _, _)
IterDataFrom(doc_batches, output, yielded) ==
    IF doc_batches = <<>> THEN [yielded |-> yielded, raised |-> FALSE]
    ELSE LET vectors == embed_documents(Head(doc_batches))
         IN IF ~IsIterable(vectors) THEN [yielded |-> yielded, raised |-> TRUE]
            ELSE LET doc_batch == Head(doc_batches)
                     rows == [i \in DOMAIN doc_batch |->
                                 TableRow(doc_batch[i], vectors.items[i])]
                 IN IterDataFrom(Tail(doc_batches), output \o rows,
                                 Append(yielded, output \o rows))

iter_data(docs, batch_size) == IterDataFrom(Batches(docs, batch_size), <<>>, <<>>)

\* The tables load() may open: built from an earlier corpus.
EarlierCorpora == {<<"p">>, <<"q", "p">>}

IndexInit ==
    /\ xpc = "ready"
    /\ \E earlier \in EarlierCorpora : table = RowsOf(earlier) /\ fts_index = RowsOf(earlier)
    /\ corpus = <<>>
    /\ index_calls = 0
    /\ SearchIdle
    /\ KamradtIdle
    /\ MdIdle
    /\ CodeIdle
    /\ RetrieverIdle
    /\ ImageIdle
    /\ FanoutIdle
    /\ CaptionIdle
    /\ DispatchIdle

\* index (lines 46-55).  create_table writes the lists iter_data yields one
\* after the other, then line 54 builds the full-text index over the table.
\* When iter_data raises, create_table does not return and line 54 is not
\* reached: the table is as it was, or gone.  When iter_data yields nothing,
\* the database makes an empty table and an index over it, or refuses data
\* without a schema.
Index(docs) ==
    /\ xpc \in {"ready", "indexed", "failed"}
    /\ index_calls < MaxCalls
    /\ LET data == iter_data(docs, BatchSize)
       IN IF data.raised
          THEN /\ table' \in {table, <<>>}
               /\ UNCHANGED fts_index
               /\ xpc' = "failed"
          ELSE IF data.yielded = <<>>
          THEN \/ table' = <<>> /\ fts_index' = <<>> /\ xpc' = "indexed"
               \/ table' \in {table, <<>>} /\ UNCHANGED fts_index /\ xpc' = "failed"
          ELSE /\ table' = Concat(data.yielded)
               /\ fts_index' = table'
               /\ xpc' = "indexed"
    /\ corpus' = docs
    /\ index_calls' = index_calls + 1
    /\ UNCHANGED notIndexVars

IndexNext == \E docs \in Corpora : Index(docs)

IndexSpec == IndexInit /\ [][IndexNext]_vars

\* C17: every index call on a corpus of at least one chunk returns, and
\* after it the table has exactly one row per chunk of the corpus, with the
\* vector of that chunk, in corpus order, also for a corpus of more chunks
\* than a batch.
C17_OneRowPerChunk ==
    (index_calls > 0 /\ corpus # <<>>) => xpc = "indexed" /\ table = RowsOf(corpus)

\* C20: after any sequence of index calls, the last on a corpus of at least
\* one chunk, the table holds rows of the corpus of that call only, and the
\* full-text index is built over that corpus.
C20_IndexIsFullReplace ==
    (index_calls > 0 /\ corpus # <<>>) =>
        /\ \A i \in DOMAIN table : table[i].embed_content \in Range(corpus)
        /\ fts_index = table
        /\ {fts_index[i].embed_content : i \in DOMAIN fts_index} = Range(corpus)


(***************************************************************************)
(* C21: the groups split_into_chunks returns hold sentences of the text    *)
(* in their original order, each at most once; the token counts of the     *)
(* sentences of a group add up to at most max_tokens = min_chunk_size; and *)
(* a sentence whose own token count exceeds max_tokens is in no group.     *)
(***************************************************************************)
OwnTotal(group) == length_function(SelectSeq(group, IsSentence))

C21_GroupsWithinMaxTokens ==
    kpc = "done" =>
        /\ StrictlyIncreasing(SentencesOf(Concat(sentences_strips)))
        /\ \A g \in DOMAIN sentences_strips :
              /\ OwnTotal(sentences_strips[g]) <= min_chunk_size
              /\ \A i \in DOMAIN sentences_strips[g] :
                    IsSentence(sentences_strips[g][i])
                        => tok[sentences_strips[g][i]] <= min_chunk_size

\* A group of two sentences, and a sentence too long for any group.
C21_Witness ==
    /\ kpc = "done"
    /\ \E g \in DOMAIN sentences_strips : Len(SentencesOf(sentences_strips[g])) = 2
    /\ \E id \in DOMAIN tok :
          /\ tok[id] > min_chunk_size
          /\ id \notin Range(Concat(sentences_strips))


(***************************************************************************)
(* C22: split_text cuts exactly at the gaps whose distance is strictly     *)
(* greater than the threshold the search ended on, a gap at the threshold  *)
(* is not cut, and each chunk is the run of units between two consecutive  *)
(* cuts, joined by spaces.                                                 *)
(***************************************************************************)
\* The gaps to cut, counted from 1: gap g lies behind unit g.
CutGaps == {g \in DOMAIN distances : distances[g] > threshold}

\* The last unit of each chunk: the cut gaps in ascending order, then the
\* last unit.
ChunkEnds ==
    LET ends == CutGaps \cup {Len(sentences_strips)}
    IN CHOOSE seq \in [1..Cardinality(ends) -> ends] : StrictlyIncreasing(seq)

C22_CutsStrictlyAboveThreshold ==
    (kpc = "done" /\ Len(sentences_strips) > 1) =>
        /\ {indices_above_thresh[i] + 1 : i \in DOMAIN indices_above_thresh} = CutGaps
        /\ StrictlyIncreasing(indices_above_thresh)
        /\ \A g \in DOMAIN distances :
              distances[g] = threshold => g \notin CutGaps
        /\ Len(chunks) = Len(ChunkEnds)
        /\ \A c \in DOMAIN chunks :
              chunks[c] = Join(SubSeq(sentences_strips,
                                      IF c = 1 THEN 1 ELSE ChunkEnds[c - 1] + 1,
                                      ChunkEnds[c]), SP)

\* The search ended on the distance of the second gap: the first gap is cut
\* and the second is not.
C22_Witness ==
    /\ kpc = "done"
    /\ Len(sentences_strips) = 3
    /\ distances[2] = threshold
    /\ indices_above_thresh = <<0>>
    /\ Len(chunks) = 2


(***************************************************************************)
(* C23: the fragments chunk_node returns for a section, taken in order,    *)
(* hold every tag and every text of the section exactly once, also a text  *)
(* that by itself is longer than max_length.                               *)
(***************************************************************************)
C23_ChunkNodeCoversEveryLeaf ==
    mpc = "done" =>
        \A p \in DOMAIN parent_chunks :
            AtomsOf(Concat(chunk_html(parent_chunks[p], max_length)))
                = AtomsOf(parent_chunks[p])


(***************************************************************************)
(* C24: every chunk merge_chunks_with_tolerance makes of two or more       *)
(* inputs has, as it is emitted, at most max_length + length_tolerance     *)
(* tokens: 2 * max_length + max_length // 2 for the parent sections,       *)
(* max_length + max_length // 4 for the fragments of a section.            *)
(***************************************************************************)
\* The outputs that are not one of the inputs are within the limit.
MergedWithin(inputs, outputs, limit) ==
    \A i \in DOMAIN outputs :
        outputs[i] \in Range(inputs) \/ length_fn(outputs[i]) <= limit

C24_MergedWithinTolerance ==
    (mpc = "done" /\ blocks # <<>>) =>
        /\ MergedWithin(split_on_headers(blocks), parent_chunks,
                        2 * max_length + max_length \div 2)
        /\ \A p \in DOMAIN parent_chunks :
              MergedWithin(MapHtmlToMd(chunk_html(parent_chunks[p], max_length)),
                           md_chunks[p], max_length + max_length \div 4)


(***************************************************************************)
(* C26: every function defined in the body of another function, decorated *)
(* or not, has a chunk of its own, and the context of that chunk names the *)
(* enclosing function as parent_function.                                  *)
(***************************************************************************)
C26_NestedFunctionsChunked ==
    cpc \in {"chunked", "rechunked"} =>
        \A outer \in AllDefinitions :
            \A n \in DOMAIN outer.nested :
                \E c \in DOMAIN root_chunks :
                    /\ root_chunks[c].name = outer.nested[n].name
                    /\ root_chunks[c].context.parent_function = outer.name

(***************************************************************************)
(* C29: every import name and every module variable that the body of a     *)
(* function refers to is in the imports or the module variables of the     *)
(* function's chunk, also when the function carries decorators.            *)
(***************************************************************************)
C29_ContextHoldsAllBodyReferences ==
    cpc \in {"chunked", "rechunked"} =>
        \A i \in DOMAIN root_chunks :
            root_chunks[i].type \in {"function", "method"} =>
                LET node == NodeNamed(root_chunks[i].name)
                IN /\ ImportsReferencedIn(node.body) \subseteq ImportsOf(i)
                   /\ node.body \cap ModuleVariables \subseteq VariablesOf(i)


(***************************************************************************)
(* ClassSpec: chunk_code on every module that defines the class K with up  *)
(* to MaxMembers statements and functions in its body.                     *)
(***************************************************************************)
MaxMembers == 2

ClassBases == {<<>>, <<"a">>}

ClassInit ==
    /\ SearchIdle
    /\ KamradtIdle
    /\ MdIdle
    /\ RetrieverIdle
    /\ ImageIdle
    /\ FanoutIdle
    /\ CaptionIdle
    /\ DispatchIdle
    /\ IndexIdle
    /\ cpc = "start"
    /\ \E decorators \in DecoratorSets, bases \in ClassBases,
          shapes \in MembersUpTo(MaxMembers) :
          root_node = [type |-> "module",
                       children |-> ModuleImports \o ModuleAssignments
                                        \o <<ParseClass(decorators, bases, shapes)>>]
    /\ hash_seed \in HashSeeds
    /\ restarted = FALSE
    /\ root_chunks = <<>>
    /\ chunks_strs = <<>>
    /\ rechunked_strs = <<>>

ClassSpec == ClassInit /\ [][CodeNext]_vars

\* The class of the module, and the chunks that carry a name.
TheClass == CHOOSE node \in Range(root_node.children) : IsClass(node)

ChunksNamed(name) == {c \in DOMAIN root_chunks : root_chunks[c].name = name}

\* The pieces of a text that are neither blank lines nor decorators.
IsContent(part) == part.kind \notin {"blank", "decorator"}

\* The last __init__ of a class body, if there is one.
InitText(node) ==
    LET inits == SelectSeq(node.members, LAMBDA m : IsMethod(m) /\ m.name = "__init__")
    IN IF inits = <<>> THEN <<>> ELSE <<MemberText(inits[Len(inits)])>>

(***************************************************************************)
(* C25: the chunk of a class, decorated or not, holds the class line, the  *)
(* assigned attributes and __init__ and nothing else, and every other      *)
(* method of the class has a chunk of type method with the class as        *)
(* parent_class.                                                           *)
(***************************************************************************)
C25_ClassChunkAndMethodChunks ==
    cpc \in {"chunked", "rechunked"} =>
        /\ \E c \in ChunksNamed(TheClass.name) :
              /\ root_chunks[c].type = "class"
              /\ LET held == SelectSeq(root_chunks[c].definition.parts, IsContent)
                     attributes == SelectSeq(TheClass.members, IsAttribute)
                 IN /\ Head(held).kind = "class line"
                    /\ Tail(held) = [i \in DOMAIN attributes |-> MemberText(attributes[i])]
                                        \o InitText(TheClass)
        /\ \A m \in DOMAIN TheClass.members :
              (IsMethod(TheClass.members[m]) /\ TheClass.members[m].name # "__init__") =>
                  \E c \in ChunksNamed(TheClass.members[m].name) :
                      /\ root_chunks[c].type = "method"
                      /\ root_chunks[c].context.parent_class = TheClass.name


\* The place of the last document with the content in the retrieved list.
LastWith(content) ==
    CHOOSE i \in DOMAIN documents :
        /\ documents[i].content = content
        /\ \A j \in DOMAIN documents : documents[j].content = content => j <= i

(***************************************************************************)
(* C27: of the retrieved candidates with the same content the dedup keeps  *)
(* exactly one, the last of them in the order of retrieval, and of their   *)
(* embed_content texts only that of the last is sent to the reranker.      *)
(***************************************************************************)
C27_DedupKeepsLastCandidate ==
    rpc \in {"reranking", "done", "failed"} =>
        \A c \in Contents(documents) :
            /\ Cardinality({j \in DOMAIN deduped_docs : deduped_docs[j].content = c}) = 1
            /\ \A j \in DOMAIN deduped_docs :
                  deduped_docs[j].content = c => deduped_docs[j] = documents[LastWith(c)]
            /\ \A i \in DOMAIN documents :
                  documents[i].content = c =>
                      (documents[i].embed_content \in Range(RerankDocuments(deduped_docs))
                          <=> documents[i] = documents[LastWith(c)])

\* Two candidates of content A were retrieved, a before a2, with another
\* candidate after or between them, and a2 went to the reranker.
C27_Witness ==
    /\ rpc = "reranking"
    /\ \E i, j \in DOMAIN documents :
          /\ i < j
          /\ documents[i] = Row("A", "a")
          /\ documents[j] = Row("A", "a2")
    /\ Len(documents) >= 3
    /\ Row("A", "a2") \in Range(deduped_docs)
    /\ "a" \notin Range(RerankDocuments(deduped_docs))


\* The steps of one retrieve_and_rerank(query, k) that runs to its end.
StepsOfCall ==
    << [step |-> "retrieve", k |-> k * 20],
       [step |-> "dedup"],
       [step |-> "arerank", documents |-> RerankDocuments(Dedup(documents)), top_n |-> k * 2],
       [step |-> "truncate", k |-> k] >>

(***************************************************************************)
(* C28: retrieve_and_rerank(query, k) retrieves k * 20 candidates, dedups  *)
(* them, reranks and truncates, in this order; the reranker is called once *)
(* only, with all the deduplicated candidates and top_n = k * 2.           *)
(***************************************************************************)
C28_StepsInOrderOneRerankCall ==
    /\ Len(call_log) <= Len(StepsOfCall)
    /\ call_log = SubSeq(StepsOfCall, 1, Len(call_log))
    /\ rpc \in {"reranking", "failed"} => Len(call_log) = 3
    /\ rpc = "done" => call_log = StepsOfCall
    /\ Len(SelectSeq(call_log, LAMBDA call : call.step = "arerank")) <= 1

\* A call that ran to its end with several candidates, more than top_n.
C28_Witness ==
    /\ rpc = "done"
    /\ Len(deduped_docs) > k * 2
    /\ Len(documents) > Len(deduped_docs)
    /\ Len(call_log) = 4
    /\ Len(call_log[3].documents) = Len(deduped_docs)


(***************************************************************************)
(* C30: a chunker constructed without a length_function has len wherever a *)
(* length is taken, in the splitter that packs the sentences and in        *)
(* self.length_function, and its split_text ends without an exception.     *)
(***************************************************************************)
C30_DefaultLengthFunctionIsLen ==
    (kpc \in {"done", "raised"} /\ self_length_function = "len") =>
        /\ splitter_length_function = "len"
        /\ kpc = "done"

====
